---------------------------- MODULE Spec2Model ----------------------------
(***************************************************************************)
(* QuickDefine: the three-tier dictionary lookup (SimpleCache hot cache,   *)
(* DictionaryDB on IndexedDB, remote dictionary API) and the               *)
(* DictionaryManager that cascades through them.                           *)
(*                                                                         *)
(* SpecCache  : one SimpleCache driven by get / set / clear and a clock.   *)
(* SpecStore  : one DictionaryDB (and the background storeBatch) on the    *)
(*              IndexedDB object store, one call at a time.                *)
(* Spec       : one DictionaryManager, getDefinition calls one after the   *)
(*              other, with the clock.                                     *)
(* SpecConc   : one DictionaryManager, overlapping getDefinition calls.    *)
(***************************************************************************)
EXTENDS Integers, Sequences, FiniteSets, TLC

VARIABLES
    now,        \* Date.now(), in clock ticks
    maxSize,    \* SimpleCache.maxSize of the instance
    cache,      \* SimpleCache.cache: the Map, as its entries in iteration order
    clog,       \* the last SimpleCache call: arguments, result and what it removed
    lru,        \* history: the cached keys, least recently accessed (get hit or set) first
    setTime,    \* history: for each cached key, the time of the last set(key); -1 for a key not cached
    store,      \* the IndexedDB object store 'dictionary' (keyPath 'word'): its records
    ddb,        \* the DictionaryDB instances: this.db and this.initPromise of each
    dcall,      \* the DictionaryDB / storeBatch call in progress
    dlog,       \* the last call that ended: arguments, outcome, result
    dbLoaded,   \* whether window.QuickDefineDB is defined
    mgrDb,      \* DictionaryManager.db is not null (its DictionaryDB is ddb)
    calls,      \* the getDefinition calls in progress: where each is, and its locals
    glog,       \* the getDefinition call that has just returned: what it did and returned
    lastOk,     \* history: a normalised word, when this manager last returned a value for it; whether the page was reloaded, and the word resolved from the API just before
    pre,        \* the DictionaryManager.preloadDictionary call: where it is, and its locals
    adm,        \* the getStats / clearAll call: where it is, its locals, and what it returned
    bg          \* the service worker's preloadDictionary: where it is, its locals, and the message it sent

cacheVars == <<now, maxSize, cache, clog, lru, setTime>>
storeVars == <<store, ddb, dcall, dlog>>
mgrVars == <<dbLoaded, mgrDb, calls, glog, lastOk, pre, adm, bg>>
vars == <<now, maxSize, cache, clog, lru, setTime, store, ddb, dcall, dlog,
          dbLoaded, mgrDb, calls, glog, lastOk, pre, adm, bg>>

---------------------------------------------------------------------------
\* Bounds of the model

\* SimpleCache.ttl, in clock ticks
TTL == 2
\* the clock stops here
MaxTime == 3
\* the largest SimpleCache.maxSize tried
MaxCapacity == 3

\* keys and values handed to a stand-alone SimpleCache
CacheKeys == {"a", "b", "c", "d"}
CacheValues == {"v1"}

\* JS null / undefined
Null == "null"

---------------------------------------------------------------------------
\* SimpleCache

\* Map.has(key)
CacheHas(c, k) == \E i \in 1..Len(c) : c[i].key = k

\* Map.get(key), for a key that is present
CacheItem(c, k) == c[CHOOSE i \in 1..Len(c) : c[i].key = k]

\* Map.delete(key)
MapDelete(c, k) == SelectSeq(c, LAMBDA e : e.key # k)

\* Map.set(key, item): a present key keeps its place, a new key goes last
MapSet(c, k, item) ==
    IF CacheHas(c, k)
    THEN [i \in 1..Len(c) |-> IF c[i].key = k THEN item ELSE c[i]]
    ELSE Append(c, item)

\* the keys of the Map, as a set
CacheKeySet(c) == {c[i].key : i \in 1..Len(c)}

\* the expiry test of SimpleCache.get
Expired(item, t) == t - item.timestamp > TTL

\* a get that restamps the entry it returns
CacheGetRefresh(c, k, t) ==
    IF ~CacheHas(c, k)
    THEN [cache |-> c, value |-> Null]
    ELSE LET item == CacheItem(c, k) IN
         IF Expired(item, t)
         THEN [cache |-> MapDelete(c, k), value |-> Null]
         ELSE [cache |-> MapSet(MapDelete(c, k), k, [item EXCEPT !.timestamp = t]),
               value |-> item.value]

\* a get that counts an entry exactly TTL old as expired
CacheGetStrict(c, k, t) ==
    IF ~CacheHas(c, k) THEN [cache |-> c, value |-> Null]
    ELSE IF t - CacheItem(c, k).timestamp >= TTL THEN [cache |-> MapDelete(c, k), value |-> Null]
    ELSE [cache |-> MapSet(MapDelete(c, k), k, CacheItem(c, k)), value |-> CacheItem(c, k).value]

\* SimpleCache.get(key) at time t: the Map afterwards and the value returned
CacheGet(c, k, t) ==
    IF ~CacheHas(c, k)
    THEN [cache |-> c, value |-> Null]
    ELSE LET item == CacheItem(c, k) IN
         IF Expired(item, t)
         THEN [cache |-> MapDelete(c, k), value |-> Null]
         ELSE [cache |-> MapSet(MapDelete(c, k), k, item), value |-> item.value]

\* a set that never evicts
CacheSetNoEvict(c, k, v, t, cap) ==
    MapSet(c, k, [key |-> k, value |-> v, timestamp |-> t])

\* SimpleCache.set(key, value) at time t: the Map afterwards
CacheSet(c, k, v, t, cap) ==
    LET c1 == IF Len(c) >= cap /\ Len(c) > 0 THEN MapDelete(c, c[1].key) ELSE c
    IN  MapSet(c1, k, [key |-> k, value |-> v, timestamp |-> t])

\* SimpleCache.clear()
CacheClear(c) == << >>

\* SimpleCache.size()
CacheSize(c) == Len(c)

---------------------------------------------------------------------------
\* History kept beside the cache (not program state)

\* a sequence without the element x
Without(s, x) == SelectSeq(s, LAMBDA y : y # x)

\* the access order after key k is accessed, restricted to the keys still cached
Touch(order, k, c) ==
    LET kept == SelectSeq(order, LAMBDA y : y # k /\ y \in CacheKeySet(c))
    IN  IF k \in CacheKeySet(c) THEN Append(kept, k) ELSE kept

\* the access order after entries were removed without any access
Prune(order, c) == SelectSeq(order, LAMBDA y : y \in CacheKeySet(c))

\* the set times, forgotten for the keys no longer cached
Forget(times, c) == [k \in DOMAIN times |-> IF k \in CacheKeySet(c) THEN times[k] ELSE -1]

NoCall == [op |-> "none"]

---------------------------------------------------------------------------
\* Words and their normalisation

\* the characters of the words tried: a letter in both cases, and a blank
Alphabet == {"a", "A", " "}
\* the longest raw word tried
MaxWordLen == 2

\* every string over Alphabet of at most n characters
WordsUpTo(n) == {<< >>} \cup UNION {[1..m -> Alphabet] : m \in 1..n}
RawWords == WordsUpTo(MaxWordLen)

\* an entry without a word property (entry.word is undefined)
NoWord == <<"undefined">>
\* an entry without a data property (entry.data is undefined)
NoData == "undefined"
\* the definitions stored and fetched
Values == {"v1", "v2"}

\* String.prototype.toLowerCase
LowerChar(ch) == IF ch = "A" THEN "a" ELSE ch
ToLowerCase(w) == [i \in 1..Len(w) |-> LowerChar(w[i])]

\* String.prototype.trim
RECURSIVE TrimStart(_)
TrimStart(w) ==
    IF Len(w) = 0 THEN w
    ELSE IF w[1] = " " THEN TrimStart(Tail(w)) ELSE w
RECURSIVE TrimEnd(_)
TrimEnd(w) ==
    IF Len(w) = 0 THEN w
    ELSE IF w[Len(w)] = " " THEN TrimEnd(SubSeq(w, 1, Len(w) - 1)) ELSE w
Trim(w) == TrimEnd(TrimStart(w))

\* a normalisation that trims and keeps the case
CleanWordTrimOnly(w) == Trim(w)

\* word.trim().toLowerCase()
CleanWord(w) == ToLowerCase(Trim(w))

\* JS truthiness of entry.word: undefined and '' are falsy
Truthy(w) == w # NoWord /\ Len(w) > 0

---------------------------------------------------------------------------
\* The IndexedDB object store and DictionaryDB

\* request.result of a get that found nothing, after `|| null'
NoRecord == [word |-> NoWord, data |-> Null]

\* a put that is lost
StorePutDropped(st, rec) == st

\* a put that keeps the record already stored under the key
StorePutKeep(st, rec) ==
    IF \E r \in st : r.word = rec.word THEN st ELSE st \cup {rec}

\* IDBObjectStore.put(record): replaces the record with the same key
StorePut(st, rec) == {r \in st : r.word # rec.word} \cup {rec}

\* IDBObjectStore.get(key)
StoreGet(st, key) ==
    IF \E r \in st : r.word = key
    THEN CHOOSE r \in st : r.word = key
    ELSE NoRecord

\* IDBObjectStore.count()
StoreCount(st) == Cardinality(st)

\* a transaction that keeps only its first put
StorePutFirst(st, recs) ==
    IF Len(recs) = 0 THEN st ELSE StorePut(st, Head(recs))

\* the puts of one transaction applied in request order
RECURSIVE StorePutAll(_, _)
StorePutAll(st, recs) ==
    IF Len(recs) = 0 THEN st ELSE StorePutAll(StorePut(st, Head(recs)), Tail(recs))

\* a record stored under the key exactly as given
RawRecord(entry) == [word |-> entry.word, data |-> entry.data]

\* DictionaryDB.set / setBatch: entryToStore = {...entry, word: cleanWord, timestamp}
\* (the timestamp is written and never read: it is left out of the record)
EntryToStore(entry) == [word |-> CleanWord(entry.word), data |-> entry.data]

\* background storeBatch: the record it puts; `entry.data || entry' stores the
\* entry itself ("self") when it has no data
BackgroundRecord(entry) ==
    [word |-> CleanWord(entry.word),
     data |-> IF entry.data # NoData THEN entry.data ELSE "self"]

\* a lookup key that is trimmed and not lower-cased
LookupKeyTrimOnly(word) == Trim(word)

\* DictionaryDB.get(word): the key it looks up
LookupKey(word) == CleanWord(word)

\* DictionaryDB.get(word) on a store, when the request succeeds
DBGetResult(st, word) == StoreGet(st, LookupKey(word))

\* a fresh DictionaryDB (constructor)
NewDB == [db |-> FALSE, initPromise |-> "none", opens |-> 0]

\* an init that opens the database again unless it is open already
InitCallAgain(d) ==
    IF d.db THEN d
    ELSE [d EXCEPT !.initPromise = "pending", !.opens = @ + 1]

\* DictionaryDB.init(), the synchronous part: the instance afterwards, with
\* the number of indexedDB.open calls it has made
InitCall(d) ==
    IF d.initPromise # "none" THEN d
    ELSE IF d.db THEN d
    ELSE [d EXCEPT !.initPromise = "pending", !.opens = @ + 1]

\* a set that accepts any entry
SetAcceptsAny(entry) == TRUE

\* DictionaryDB.set: the guard `if (!entry.word) throw'
SetAccepts(entry) == Truthy(entry.word)

\* forEach of setBatch / storeBatch: the records put, in order, skipping the
\* entries without a word
RECURSIVE BatchQueue(_, _)
BatchQueue(entries, background) ==
    IF Len(entries) = 0 THEN << >>
    ELSE LET e == Head(entries)
             rest == BatchQueue(Tail(entries), background)
         IN  IF ~Truthy(e.word) THEN rest
             ELSE <<IF background THEN BackgroundRecord(e) ELSE EntryToStore(e)>> \o rest

\* no call in progress
IdleCall == [op |-> "idle"]

\* the callers of getDefinition
Procs == {"p1", "p2"}
\* the words callers look up
GDWords == {<<"a">>, <<"A", " ">>, <<"a", "A">>, <<" ">>}
\* the normalised words
MgrKeys == {CleanWord(w) : w \in GDWords}
\* preloadDictionary is not running
NoPreload == [pc |-> "idle"]
\* neither getStats nor clearAll has been called
NoAdmin == [pc |-> "idle"]
\* dictionary.json has not been read; once read, the set holds its content
NoFile == {}
\* a preloadDictionary run of the service worker that has not started
NoRun ==
    [pc |-> "idle", entries |-> << >>, i |-> 0, loaded |-> 0,
     counted |-> -1, held |-> -1, sent |-> << >>, written |-> {},
     message |-> -1, error |-> "none", file |-> NoFile,
     after |-> FALSE, between |-> FALSE]
\* the service worker has not started a preload and has not been asked for
\* the preload status; twin is a second preloadDictionary run. History:
\* after, the other run had completed when this one started; between, this
\* run issued a batch while the other was between two of its batches;
\* checkAfter, a run had completed when the status was asked for
NoBackground ==
    [pc |-> "idle", entries |-> << >>, i |-> 0, loaded |-> 0,
     counted |-> -1, held |-> -1, sent |-> << >>, written |-> {},
     message |-> -1, error |-> "none", file |-> NoFile,
     after |-> FALSE, between |-> FALSE,
     twin |-> NoRun, check |-> "idle", checkAfter |-> FALSE, preloaded |-> "none"]
\* the normalised word whose history is kept
WatchedKey == <<"a">>
\* no call has returned a value for the word whose history is kept
NeverOk(k) == [key |-> k, at |-> -1, restarted |-> FALSE, resolved |-> NoWord]
\* a caller that is not inside getDefinition
IdleProc == [pc |-> "idle"]
\* no getDefinition call has just returned
NoResult == [source |-> "none"]

ManagerIdle ==
    /\ dbLoaded = TRUE
    /\ mgrDb = FALSE
    /\ calls = [p \in Procs |-> IdleProc]
    /\ glog = NoResult
    /\ lastOk = NeverOk(WatchedKey)
    /\ pre = NoPreload
    /\ adm = NoAdmin
    /\ bg = NoBackground

StoreIdle ==
    /\ store = {}
    /\ ddb = NewDB
    /\ dcall = IdleCall
    /\ dlog = [op |-> "none", outcome |-> "none"]

---------------------------------------------------------------------------
\* Operations on a stand-alone SimpleCache

\* cache.get(k)
CacheGetOp(k) ==
    LET r == CacheGet(cache, k, now) IN
    /\ cache' = r.cache
    /\ clog' = [op |-> "get", key |-> k, value |-> r.value,
                present |-> CacheHas(cache, k),
                sinceSet |-> IF setTime[k] < 0 THEN -1 ELSE now - setTime[k],
                sizeBefore |-> Len(cache),
                removed |-> CacheKeySet(cache) \ CacheKeySet(r.cache)]
    /\ lru' = IF r.value # Null THEN Touch(lru, k, r.cache) ELSE Prune(lru, r.cache)
    /\ setTime' = Forget(setTime, r.cache)
    /\ UNCHANGED <<now, maxSize>>
    /\ UNCHANGED storeVars
    /\ UNCHANGED mgrVars

\* cache.set(k, v)
CacheSetOp(k, v) ==
    LET c2 == CacheSet(cache, k, v, now, maxSize) IN
    /\ cache' = c2
    /\ clog' = [op |-> "set", key |-> k, value |-> v,
                present |-> CacheHas(cache, k),
                sizeBefore |-> Len(cache),
                allFresh |-> \A i \in 1..Len(cache) : ~Expired(cache[i], now),
                lra |-> IF Len(lru) > 0 THEN lru[1] ELSE Null,
                removed |-> CacheKeySet(cache) \ CacheKeySet(c2),
                removedFresh |-> {cache[i].key : i \in {j \in 1..Len(cache) :
                                     /\ cache[j].key \notin CacheKeySet(c2)
                                     /\ ~Expired(cache[j], now)}}]
    /\ lru' = Touch(lru, k, c2)
    /\ setTime' = Forget([setTime EXCEPT ![k] = now], c2)
    /\ UNCHANGED <<now, maxSize>>
    /\ UNCHANGED storeVars
    /\ UNCHANGED mgrVars

\* cache.clear()
CacheClearOp ==
    /\ cache' = CacheClear(cache)
    /\ clog' = [op |-> "clear", sizeBefore |-> Len(cache),
                removed |-> CacheKeySet(cache)]
    /\ lru' = << >>
    /\ setTime' = Forget(setTime, << >>)
    /\ UNCHANGED <<now, maxSize>>
    /\ UNCHANGED storeVars
    /\ UNCHANGED mgrVars

\* the clock advances
Tick ==
    /\ now < MaxTime
    /\ now' = now + 1
    /\ UNCHANGED <<maxSize, cache, clog, lru, setTime>>
    /\ UNCHANGED storeVars
    /\ UNCHANGED mgrVars

InitCache ==
    /\ now = 0
    /\ maxSize \in 1..MaxCapacity
    /\ cache = << >>
    /\ clog = NoCall
    /\ lru = << >>
    /\ setTime = [k \in CacheKeys |-> -1]
    /\ StoreIdle
    /\ ManagerIdle

NextCache ==
    \/ \E k \in CacheKeys : CacheGetOp(k)
    \/ \E k \in CacheKeys, v \in CacheValues : CacheSetOp(k, v)
    \/ CacheClearOp
    \/ Tick

SpecCache == InitCache /\ [][NextCache]_vars

---------------------------------------------------------------------------
\* Claims about SimpleCache (checked under SpecCache)

\* C4: when the cache holds maxSize unexpired entries and set is called with
\* a new key, exactly one entry is evicted and it is the least recently
\* accessed one (an access being a successful get or a set of the key).
C4_EvictsLeastRecentlyAccessed ==
    (clog.op = "set" /\ ~clog.present /\ clog.sizeBefore = maxSize /\ clog.allFresh)
        => clog.removed = {clog.lra}

\* C5: set(k, v) with k already present evicts no entry and leaves size()
\* unchanged, also at capacity; a set evicts only when the cache is at
\* capacity and the key is new.
C5_OverwriteEvictsNothing ==
    clog.op = "set" =>
        /\ clog.present => (clog.removed = {} /\ CacheSize(cache) = clog.sizeBefore)
        /\ clog.removed # {} => (~clog.present /\ clog.sizeBefore >= maxSize)

\* C6: in every reachable state size() <= maxSize.
C6_SizeWithinCapacity == CacheSize(cache) <= maxSize

\* C6 witness: a set of a new key into a full cache has just evicted an entry
\* that had not expired.
C6_Witness_FreshEntryEvicted ==
    /\ clog.op = "set"
    /\ ~clog.present
    /\ clog.removedFresh # {}
    /\ CacheSize(cache) = maxSize

\* C7 (as stated): an entry returned by get is younger than TTL, its age
\* measured from the last set of its key.
C7_ReturnedYoungerThanTTL ==
    (clog.op = "get" /\ clog.value # Null) => (clog.sinceSet >= 0 /\ clog.sinceSet < TTL)

\* C7 (amended): an entry returned by get is never older than TTL, its age
\* measured from the last set of its key (get hits do not restamp it); a get
\* more than TTL after the last set returns nothing and leaves the key out of
\* the cache.
C7_ReturnedNotOlderThanTTL ==
    clog.op = "get" =>
        /\ clog.value # Null => (clog.sinceSet >= 0 /\ clog.sinceSet <= TTL)
        /\ clog.sinceSet > TTL => (clog.value = Null /\ ~CacheHas(cache, clog.key))

\* C7 witness: a get found an entry older than TTL, removed it and returned
\* nothing.
C7_Witness_ExpiredRemoved ==
    /\ clog.op = "get"
    /\ clog.present
    /\ clog.sinceSet > TTL
    /\ clog.removed = {clog.key}
    /\ clog.value = Null

---------------------------------------------------------------------------
\* DictionaryDB and storeBatch calls, one at a time

\* the longest batch tried
MaxBatch == 2
\* the entries handed to set
SetEntries == {[word |-> w, data |-> d] : w \in RawWords \cup {NoWord}, d \in Values}
\* the entries handed to setBatch and storeBatch
BatchEntries ==
    {[word |-> w, data |-> d] :
        w \in {<<"A", " ">>, <<"a", "A">>, NoWord}, d \in {"v2"}}
    \cup {[word |-> <<" ", "a">>, data |-> NoData]}
BatchesUpTo(n) == {<< >>} \cup UNION {[1..m -> BatchEntries] : m \in 1..n}

\* nothing logged
NoLog == [op |-> "none", outcome |-> "none"]

\* no successful set ended just before
NoPrev == [word |-> NoWord, data |-> Null, exact |-> TRUE]

\* what a caller passed as entry.word: nothing, the empty string, or a string
WordKind(w) == IF w = NoWord THEN "missing" ELSE IF Len(w) = 0 THEN "empty" ELSE "given"

\* the number of entries of a batch that have a word
RECURSIVE CountGiven(_)
CountGiven(entries) ==
    IF Len(entries) = 0 THEN 0
    ELSE (IF WordKind(Head(entries).word) = "given" THEN 1 ELSE 0) + CountGiven(Tail(entries))

\* what the log keeps of a call's arguments: for get and set the kind of word
\* given, the word it normalises to (trimmed, lower-cased), whether it was
\* given in that spelling, and the data; for a batch its length and the number
\* of its entries that have a word
LogArg(call) ==
    IF call.op \in {"get", "set"}
    THEN [kind |-> WordKind(call.arg.word),
          word |-> IF call.arg.word = NoWord THEN NoWord
                   ELSE ToLowerCase(Trim(call.arg.word)),
          exact |-> call.arg.word = ToLowerCase(Trim(call.arg.word)),
          data |-> call.arg.data]
    ELSE [kind |-> "batch", len |-> Len(call.arg), given |-> CountGiven(call.arg)]

\* the call ends: its arguments, outcome and result are logged, with the
\* record of the successful set that ended just before it, if that is what
\* preceded it
Finish(outcome, result, st) ==
    /\ store' = st
    /\ dlog' = [op |-> dcall.op, arg |-> LogArg(dcall), outcome |-> outcome,
                result |-> result, unchanged |-> (st = store),
                prevSet |-> IF dlog.op = "set" /\ dlog.outcome = "ok"
                            THEN [word |-> dlog.arg.word, data |-> dlog.arg.data,
                                  exact |-> dlog.arg.exact]
                            ELSE NoPrev]
    /\ dcall' = IdleCall

\* db.get(word) is called: await this.init()
DBGetCall(word) ==
    /\ dcall.op = "idle"
    /\ dcall' = [op |-> "get", pc |-> "init", arg |-> [word |-> word, data |-> NoData]]
    /\ ddb' = InitCall(ddb)
    /\ dlog' = IF dlog.op = "set" /\ dlog.outcome = "ok" THEN dlog ELSE NoLog
    /\ UNCHANGED store
    /\ UNCHANGED cacheVars
    /\ UNCHANGED mgrVars

\* db.set(entry) is called: await this.init()
DBSetCall(entry) ==
    /\ dcall.op = "idle"
    /\ dcall' = [op |-> "set", pc |-> "init", arg |-> entry]
    /\ ddb' = InitCall(ddb)
    /\ dlog' = NoLog
    /\ UNCHANGED store
    /\ UNCHANGED cacheVars
    /\ UNCHANGED mgrVars

\* db.setBatch(entries) is called: await this.init()
DBSetBatchCall(entries) ==
    /\ dcall.op = "idle"
    /\ dcall' = [op |-> "setBatch", pc |-> "init", arg |-> entries]
    /\ ddb' = InitCall(ddb)
    /\ dlog' = NoLog
    /\ UNCHANGED store
    /\ UNCHANGED cacheVars
    /\ UNCHANGED mgrVars

\* indexedDB.open succeeds: request.onsuccess of init
DBOpenSuccess ==
    /\ ddb.initPromise = "pending"
    /\ ddb' = [ddb EXCEPT !.db = TRUE, !.initPromise = "resolved"]
    /\ UNCHANGED <<store, dcall, dlog>>
    /\ UNCHANGED cacheVars
    /\ UNCHANGED mgrVars

\* indexedDB.open fails: request.onerror of init
DBOpenError ==
    /\ ddb.initPromise = "pending"
    /\ ddb' = [ddb EXCEPT !.initPromise = "rejected"]
    /\ UNCHANGED <<store, dcall, dlog>>
    /\ UNCHANGED cacheVars
    /\ UNCHANGED mgrVars

\* the call resumes after `await this.init()': a rejected init fails it; get
\* issues its request; set checks the word and issues its put; setBatch runs
\* its forEach
DBAfterInit ==
    /\ dcall.op # "idle"
    /\ dcall.pc = "init"
    /\ ddb.initPromise \in {"resolved", "rejected"}
    /\ UNCHANGED ddb
    /\ UNCHANGED cacheVars
    /\ UNCHANGED mgrVars
    /\ IF ddb.initPromise = "rejected" THEN Finish("error", NoRecord, store)
       ELSE CASE dcall.op = "get" ->
                   /\ dcall' = [dcall EXCEPT !.pc = "req"]
                   /\ UNCHANGED <<store, dlog>>
              [] dcall.op = "set" ->
                   IF ~SetAccepts(dcall.arg) THEN Finish("error", NoRecord, store)
                   ELSE /\ dcall' = [op |-> "set", pc |-> "req", arg |-> dcall.arg,
                                     queue |-> <<EntryToStore(dcall.arg)>>]
                        /\ UNCHANGED <<store, dlog>>
              [] dcall.op = "setBatch" ->
                   /\ dcall' = [op |-> "setBatch", pc |-> "req", arg |-> dcall.arg,
                                queue |-> BatchQueue(dcall.arg, FALSE), done |-> << >>]
                   /\ UNCHANGED <<store, dlog>>

\* background storeBatch(db, entries) on an open connection: its forEach
StoreBatchCall(entries) ==
    /\ dcall.op = "idle"
    /\ dcall' = [op |-> "storeBatch", pc |-> "req", arg |-> entries,
                 queue |-> BatchQueue(entries, TRUE), done |-> << >>]
    /\ dlog' = NoLog
    /\ UNCHANGED <<store, ddb>>
    /\ UNCHANGED cacheVars
    /\ UNCHANGED mgrVars

\* request.onsuccess of the get
DBGetSuccess ==
    /\ dcall.op = "get"
    /\ dcall.pc = "req"
    /\ Finish("ok", DBGetResult(store, dcall.arg.word), store)
    /\ UNCHANGED ddb
    /\ UNCHANGED cacheVars
    /\ UNCHANGED mgrVars

\* request.onsuccess of the put of set
DBSetSuccess ==
    /\ dcall.op = "set"
    /\ dcall.pc = "req"
    /\ Finish("ok", NoRecord, StorePut(store, dcall.queue[1]))
    /\ UNCHANGED ddb
    /\ UNCHANGED cacheVars
    /\ UNCHANGED mgrVars

\* request.onsuccess of one put of a batch; the last one completes the count,
\* the promise resolves and the transaction commits
BatchPutSuccess ==
    /\ dcall.op \in {"setBatch", "storeBatch"}
    /\ dcall.pc = "req"
    /\ Len(dcall.queue) > 0
    /\ UNCHANGED ddb
    /\ UNCHANGED cacheVars
    /\ UNCHANGED mgrVars
    /\ IF Len(dcall.queue) = 1
       THEN Finish("ok", NoRecord, StorePutAll(store, Append(dcall.done, dcall.queue[1])))
       ELSE /\ dcall' = [dcall EXCEPT !.queue = Tail(dcall.queue),
                                      !.done = Append(dcall.done, dcall.queue[1])]
            /\ UNCHANGED <<store, dlog>>

\* a batch with nothing to put: the promise was resolved inside forEach when
\* every entry was skipped; with no entry at all nothing ever settles it
BatchNothingToPut ==
    /\ dcall.op \in {"setBatch", "storeBatch"}
    /\ dcall.pc = "req"
    /\ Len(dcall.queue) = 0
    /\ Finish(IF Len(dcall.arg) > 0 THEN "ok" ELSE "never", NoRecord, store)
    /\ UNCHANGED ddb
    /\ UNCHANGED cacheVars
    /\ UNCHANGED mgrVars

\* a transaction that keeps the puts made before the fault
TxPartial(st, puts) == StorePutAll(st, puts)

\* the store after a transaction aborts: none of its puts is kept
TxAbort(st, puts) == st

\* request.onerror: a storage fault; the transaction aborts, nothing it put
\* is kept, and the promise is rejected
DBRequestError ==
    /\ dcall.op # "idle"
    /\ dcall.pc = "req"
    /\ dcall.op \in {"setBatch", "storeBatch"} => Len(dcall.queue) > 0
    /\ Finish("error", NoRecord,
              IF dcall.op \in {"setBatch", "storeBatch"} THEN TxAbort(store, dcall.done)
              ELSE store)
    /\ UNCHANGED ddb
    /\ UNCHANGED cacheVars
    /\ UNCHANGED mgrVars

InitStore ==
    /\ now = 0
    /\ maxSize = 1
    /\ cache = << >>
    /\ clog = NoCall
    /\ lru = << >>
    /\ setTime = [k \in CacheKeys |-> -1]
    /\ StoreIdle
    /\ ManagerIdle

NextStore ==
    \/ \E w \in RawWords : DBGetCall(w)
    \/ \E e \in SetEntries : DBSetCall(e)
    \/ \E b \in BatchesUpTo(MaxBatch) : DBSetBatchCall(b)
    \/ \E b \in BatchesUpTo(MaxBatch) : StoreBatchCall(b)
    \/ DBOpenSuccess
    \/ DBOpenError
    \/ DBAfterInit
    \/ DBGetSuccess
    \/ DBSetSuccess
    \/ BatchPutSuccess
    \/ BatchNothingToPut
    \/ DBRequestError

SpecStore == InitStore /\ [][NextStore]_vars

---------------------------------------------------------------------------
\* Claims about DictionaryDB and the store (checked under SpecStore)

\* a string without surrounding blanks
IsTrimmed(w) == Len(w) = 0 \/ (w[1] # " " /\ w[Len(w)] # " ")
\* a string without upper-case letters
IsLowerCase(w) == \A i \in 1..Len(w) : w[i] # "A"

\* C8: store round trip. After DictionaryDB.set(record) succeeds, get of any
\* spelling that normalises to the same word yields a record with the
\* identical value and the trimmed, lower-cased key; and a get that ends right
\* after such a set, for a spelling of the same word, returned that record.
C8_StoreRoundTrip ==
    /\ (dlog.op = "set" /\ dlog.outcome = "ok") =>
          \A r \in RawWords :
              ToLowerCase(Trim(r)) = dlog.arg.word =>
                  DBGetResult(store, r) = [word |-> dlog.arg.word, data |-> dlog.arg.data]
    /\ (/\ dlog.op = "get"
        /\ dlog.outcome = "ok"
        /\ dlog.prevSet # NoPrev
        /\ dlog.prevSet.word = dlog.arg.word) =>
          /\ dlog.result = [word |-> dlog.prevSet.word, data |-> dlog.prevSet.data]
          /\ IsTrimmed(dlog.result.word)
          /\ IsLowerCase(dlog.result.word)

\* C8 witness: a record was set under a padded or mixed-case spelling and the
\* get that followed, spelled in normal form, returned its value.
C8_Witness_RoundTrip ==
    /\ dlog.op = "get"
    /\ dlog.outcome = "ok"
    /\ dlog.prevSet # NoPrev
    /\ dlog.prevSet.word = dlog.arg.word
    /\ ~dlog.prevSet.exact
    /\ dlog.arg.exact
    /\ dlog.result.data = dlog.prevSet.data

\* C9: every record key in the store is trimmed and lower-cased, and no two
\* records differ only by case or surrounding whitespace.
C9_StoredKeysNormalised ==
    /\ \A r \in store : IsTrimmed(r.word) /\ IsLowerCase(r.word)
    /\ \A r1, r2 \in store :
          ToLowerCase(Trim(r1.word)) = ToLowerCase(Trim(r2.word)) => r1 = r2

\* C9 witness: a background storeBatch of entries spelled with upper case and
\* padding has been written.
C9_Witness_BatchWritten ==
    /\ dlog.op = "storeBatch"
    /\ dlog.outcome = "ok"
    /\ dlog.arg.given = 2
    /\ ~dlog.unchanged
    /\ Cardinality(store) >= 2

\* C10: DictionaryDB.set(record) with an empty (or missing) word fails with an
\* error and leaves the store unchanged.
C10_SetRejectsEmptyWord ==
    (dlog.op = "set" /\ dlog.arg.kind \in {"empty", "missing"})
        => (dlog.outcome = "error" /\ dlog.unchanged)

\* C10 witness: the database is open and a set with the empty word has failed.
C10_Witness_EmptyWordRejected ==
    /\ dlog.op = "set"
    /\ dlog.arg.kind = "empty"
    /\ dlog.outcome = "error"
    /\ ddb.initPromise = "resolved"
    /\ store # {}

---------------------------------------------------------------------------
(* setBatch: malformed records, faults                                     *)

\* the positions of a batch whose entry has a word
GivenAt(entries) == {i \in 1..Len(entries) : Truthy(entries[i].word)}

\* the keys under which a batch has records to store
BatchKeys(entries) == {CleanWord(entries[i].word) : i \in GivenAt(entries)}

\* the data of the last entry of a batch stored under a key
LastData(entries, key) ==
    LET at == {i \in GivenAt(entries) : CleanWord(entries[i].word) = key}
    IN  entries[CHOOSE i \in at : \A j \in at : j <= i].data

\* a store is an earlier store plus every record of a batch that has a word,
\* and nothing else
BatchApplied(before, entries, after) ==
    /\ {r.word : r \in after} = {r.word : r \in before} \cup BatchKeys(entries)
    /\ \A r \in after : r.word \notin BatchKeys(entries) => r \in before
    /\ \A k \in BatchKeys(entries) : StoreGet(after, k).data = LastData(entries, k)

\* a setBatch call ends in this step
SetBatchEnds == dcall.op = "setBatch" /\ dcall'.op = "idle"

\* C11: a setBatch call that meets no storage fault succeeds, and the store
\* then holds every record of the batch that has a word, and nothing for the
\* entries without one, wherever these sit in the list.
C11_BatchSkipsMalformed ==
    [][SetBatchEnds =>
          /\ dlog'.outcome \in {"ok", "error"}
          /\ dlog'.outcome = "ok" => BatchApplied(store, dcall.arg, store')]_vars

---------------------------------------------------------------------------
(* DictionaryManager.getDefinition, one step per await                     *)

\* API.RETRY_ATTEMPTS
RetryAttempts == 2
\* capacity of the manager's hot cache in the model
MgrMaxSize == 1
\* what the persistent store holds when the page loads
InitialStores == { {}, {[word |-> <<"a">>, data |-> "v1"]} }

\* the hot cache key `word_${cleanWord}'
HotKey(cleanWord) == <<"word_">> \o cleanWord

\* the hot cache holds this value under this key
CacheHolds(c, k, v) == CacheHas(c, k) /\ CacheItem(c, k).value = v

\* the persistent store holds this value under this key
StoreHolds(st, key, v) == StoreGet(st, key) # NoRecord /\ StoreGet(st, key).data = v

\* a lookup that never takes what the store returns
StoreHitNever(dbResult) == FALSE

\* `dbResult && dbResult.data': the store returned a record with a definition
StoreHit(dbResult) == dbResult # NoRecord /\ dbResult.data # NoData

\* how a call that awaits DictionaryDB.init() finds the init promise
Awaited(d) ==
    IF d.initPromise = "resolved" THEN "ok"
    ELSE IF d.initPromise = "rejected" THEN "failed"
    ELSE "wait"

\* the init promise settles: every call awaiting it is resumed with the outcome
Settle(cs, outcome) ==
    [p \in Procs |-> IF cs[p].pc # "idle" /\ cs[p].ready = "wait"
                     THEN [cs[p] EXCEPT !.ready = outcome]
                     ELSE cs[p]]

\* the init promise settles while preloadDictionary awaits it in initDB
SettlePreload(pr, outcome) ==
    IF pr.pc = "initDB" /\ pr.ready = "wait" THEN [pr EXCEPT !.ready = outcome] ELSE pr

\* the init promise settles while the db.count() of getStats or the
\* db.clear() of clearAll awaits it
SettleAdmin(a, outcome) ==
    IF a.pc \in {"statsInit", "clearInit"} /\ a.ready = "wait"
    THEN [a EXCEPT !.ready = outcome] ELSE a

\* getDefinition returns: the caller is idle again and the call is logged
Return(p, cs, source, error, data, wroteBack, c, st) ==
    /\ calls' = [cs EXCEPT ![p] = IdleProc]
    /\ glog' = [proc |-> p,
                key |-> cs[p].key,
                source |-> source,
                error |-> error,
                data |-> data,
                probes |-> cs[p].probes,
                reqs |-> cs[p].reqs,
                hadEntry |-> cs[p].hadEntry,
                prior |-> cs[p].prior,
                found |-> cs[p].found,
                arrCached |-> cs[p].arrCached,
                fault |-> cs[p].fault,
                bundled |-> cs[p].bundled,
                resp |-> cs[p].resp,
                fails |-> cs[p].fails,
                wrote |-> cs[p].wrote,
                wroteBack |-> wroteBack,
                cached |-> CacheHolds(c, HotKey(cs[p].key), data),
                stored |-> StoreHolds(st, cs[p].key, data)]
    /\ lastOk' = IF source \in {"hot_cache", "indexeddb", "api"} /\ cs[p].key = lastOk.key
                 THEN [lastOk EXCEPT !.at = now]
                 ELSE lastOk

\* the locals of a call that enters fetchFromAPI: the first request is issued
FetchCallJoined(call, found, fault) ==
    [call EXCEPT !.pc = "fetch",
                 !.ready = "ok",
                 !.found = found,
                 !.fault = fault,
                 !.probes = @ \o <<"remote">>,
                 !.reqs = IF \E q \in Procs : /\ calls[q].pc \in {"fetch", "retryWait"}
                                            /\ calls[q].key = call.key
                          THEN 0 ELSE 1,
                 !.retries = RetryAttempts]

FetchCall(call, found, fault) ==
    [call EXCEPT !.pc = "fetch",
                 !.ready = "ok",
                 !.found = found,
                 !.fault = fault,
                 !.probes = @ \o <<"remote">>,
                 !.reqs = 1,
                 !.retries = RetryAttempts]

\* the call goes on to fetchFromAPI
StartFetch(p, found) ==
    /\ calls' = [calls EXCEPT ![p] = FetchCall(@, found, @.fault)]
    /\ glog' = NoResult
    /\ UNCHANGED lastOk

\* `if (this.db)' finds no store, because the class is missing or because
\* initialisation failed: the call goes on to fetchFromAPI
StoreSkipped(p) ==
    /\ calls' = [calls EXCEPT ![p] = FetchCall(@, FALSE, IF dbLoaded THEN "dropped" ELSE "missing")]
    /\ glog' = NoResult
    /\ UNCHANGED lastOk

\* a store failure that propagates out of getDefinition
StoreFaultThrown(p, kind) ==
    Return(p, [calls EXCEPT ![p].fault = kind], "undefined", "network", NoData, "none",
           cache, store)

\* the catch around db.get: the failure is logged and the call goes on to
\* fetchFromAPI
StoreFaultCaught(p, kind) ==
    /\ calls' = [calls EXCEPT ![p] = FetchCall(@, FALSE, kind)]
    /\ glog' = NoResult
    /\ UNCHANGED lastOk

\* the readwrite transaction of a batch that is open on the object store: the
\* offset of the batch in the list being preloaded, or -1 when none is open
TxTurn ==
    IF dcall.op \in {"setBatch", "storeBatch"} /\ dcall.pc = "req"
    THEN IF pre.pc = "batch" THEN pre.i
         ELSE IF bg.pc \in {"batch", "last"} THEN 2 * bg.i
         ELSE IF bg.twin.pc \in {"batch", "last"} THEN 2 * bg.twin.i + 1
         ELSE 0
    ELSE -1

\* a lock on the store that a preload holds from its first batch to its end
BlockedByPreload(call) == call.behind >= 0 /\ pre.pc \in {"batch", "yield"}

\* IndexedDB runs transactions on the same object store one after the other
\* when one of them is readwrite: the request of this call waits while the
\* batch transaction that was open when it was issued has not finished
Blocked(call) == call.behind >= 0 /\ call.behind = TxTurn

\* this.hotCache.get(`word_${cleanWord}`) for the word given to getDefinition
CacheProbe(word) == CacheGet(cache, HotKey(CleanWord(word)), now)

\* this.db.get(cleanWord) for the word given to getDefinition
StoreProbe(word) == DBGetResult(store, CleanWord(word))

\* the record of this.db.set({ word: cleanWord, data }) for the word given to
\* getDefinition
WriteBackRecord(word, data) == EntryToStore([word |-> CleanWord(word), data |-> data])

\* getDefinition(word) up to its first await: normalise, hot cache lookup,
\* then initDB up to its own first await
GDStart(p, word) ==
    /\ calls[p].pc = "idle"
    /\ LET cleanWord == CleanWord(word)
           cached == CacheProbe(word)
           call == [pc |-> "initDB",
                    key |-> cleanWord,
                    ready |-> "ok",
                    probes |-> <<"cache">>,
                    reqs |-> 0,
                    retries |-> 0,
                    data |-> NoData,
                    hadEntry |-> /\ CacheHas(cache, HotKey(cleanWord))
                                 /\ ~Expired(CacheItem(cache, HotKey(cleanWord)), now),
                    prior |-> /\ lastOk.key = cleanWord
                              /\ lastOk.at >= 0
                              /\ now - lastOk.at <= TTL,
                    found |-> FALSE,
                    arrCached |-> FALSE,
                    fault |-> "none",
                    resp |-> "none",
                    fails |-> 0,
                    wrote |-> FALSE,
                    behind |-> -1,
                    bundled |-> cleanWord \in {r.word : r \in bg.written},
                    before |-> adm.pc = "idle"]
           cs == [calls EXCEPT ![p] = call]
       IN  /\ cache' = cached.cache
           /\ IF cached.value # Null
              THEN /\ Return(p, cs, "hot_cache", "none", cached.value, "none",
                             cached.cache, store)
                   /\ UNCHANGED <<mgrDb, ddb>>
              ELSE IF ~dbLoaded \/ mgrDb
              THEN /\ calls' = cs
                   /\ glog' = NoResult
                   /\ UNCHANGED lastOk
                   /\ UNCHANGED <<mgrDb, ddb>>
              ELSE /\ mgrDb' = TRUE
                   /\ ddb' = InitCall(NewDB)
                   /\ calls' = [cs EXCEPT ![p] = [@ EXCEPT !.ready = "wait"]]
                   /\ glog' = NoResult
                   /\ UNCHANGED lastOk
    /\ UNCHANGED <<now, maxSize, clog, lru, setTime>>
    /\ UNCHANGED <<store, dcall, dlog, dbLoaded, pre, adm, bg>>

\* indexedDB.open of the manager's store succeeds
MgrOpenSuccess ==
    /\ mgrDb
    /\ ddb.initPromise = "pending"
    /\ ddb' = [ddb EXCEPT !.db = TRUE, !.initPromise = "resolved"]
    /\ calls' = Settle(calls, "ok")
    /\ pre' = SettlePreload(pre, "ok")
    /\ adm' = SettleAdmin(adm, "ok")
    /\ glog' = NoResult
    /\ UNCHANGED lastOk
    /\ UNCHANGED <<store, dcall, dlog, dbLoaded, mgrDb, bg>>
    /\ UNCHANGED cacheVars

\* a failed open after which the manager keeps the instance
MgrOpenErrorKept ==
    /\ mgrDb
    /\ ddb.initPromise = "pending"
    /\ ddb' = [ddb EXCEPT !.initPromise = "rejected"]
    /\ calls' = Settle(calls, "failed")
    /\ pre' = SettlePreload(pre, "failed")
    /\ adm' = SettleAdmin(adm, "failed")
    /\ glog' = NoResult
    /\ UNCHANGED lastOk
    /\ UNCHANGED <<store, dcall, dlog, dbLoaded, mgrDb, bg>>
    /\ UNCHANGED cacheVars

\* indexedDB.open of the manager's store fails: initDB catches and drops the
\* instance
MgrOpenError ==
    /\ mgrDb
    /\ ddb.initPromise = "pending"
    /\ ddb' = [ddb EXCEPT !.initPromise = "rejected"]
    /\ mgrDb' = FALSE
    /\ calls' = Settle(calls, "failed")
    /\ pre' = SettlePreload(pre, "failed")
    /\ adm' = SettleAdmin(adm, "failed")
    /\ glog' = NoResult
    /\ UNCHANGED lastOk
    /\ UNCHANGED <<store, dcall, dlog, dbLoaded, bg>>
    /\ UNCHANGED cacheVars

\* after `await this.initDB()': with a store, db.get is called and awaits
\* init; without one the call goes to the API
GDAfterInitDB(p) ==
    /\ calls[p].pc = "initDB"
    /\ calls[p].ready # "wait"
    /\ IF mgrDb
       THEN /\ calls' = [calls EXCEPT ![p] = [@ EXCEPT !.pc = "dbGetInit",
                                                        !.ready = Awaited(InitCall(ddb))]]
            /\ ddb' = InitCall(ddb)
            /\ glog' = NoResult
            /\ UNCHANGED lastOk
       ELSE /\ StoreSkipped(p)
            /\ UNCHANGED ddb
    /\ UNCHANGED <<store, dcall, dlog, dbLoaded, pre, adm, bg, mgrDb>>
    /\ UNCHANGED cacheVars

\* db.get after `await this.init()': the request is issued, or the rejected
\* init is caught by getDefinition, which goes to the API
GDDbGetAfterInit(p) ==
    /\ calls[p].pc = "dbGetInit"
    /\ calls[p].ready # "wait"
    /\ IF calls[p].ready = "ok"
       THEN /\ calls' = [calls EXCEPT ![p] = [@ EXCEPT !.pc = "dbGetReq",
                                                        !.probes = @ \o <<"store">>,
                                                        !.behind = TxTurn]]
            /\ glog' = NoResult
            /\ UNCHANGED lastOk
       ELSE StoreFaultCaught(p, "init")
    /\ UNCHANGED <<store, ddb, dcall, dlog, dbLoaded, pre, adm, bg, mgrDb>>
    /\ UNCHANGED cacheVars

\* the get request succeeds: a record with data is cached and returned,
\* otherwise the call goes to the API
GDDbGetSuccess(p) ==
    /\ calls[p].pc = "dbGetReq"
    /\ ~Blocked(calls[p])
    /\ LET dbResult == DBGetResult(store, calls[p].key)
       IN  IF StoreHit(dbResult)
           THEN LET c == CacheSet(cache, HotKey(calls[p].key), dbResult.data, now, maxSize)
                IN  /\ cache' = c
                    /\ Return(p, [calls EXCEPT ![p].wrote = TRUE],
                              "indexeddb", "none", dbResult.data, "none", c, store)
           ELSE /\ StartFetch(p, StoreHolds(store, calls[p].key, dbResult.data)
                                   /\ dbResult.data # NoData)
                /\ UNCHANGED cache
    /\ UNCHANGED <<now, maxSize, clog, lru, setTime>>
    /\ UNCHANGED <<store, ddb, dcall, dlog, dbLoaded, pre, adm, bg, mgrDb>>

\* the get request fails: getDefinition catches and goes to the API
GDDbGetError(p) ==
    /\ calls[p].pc = "dbGetReq"
    /\ ~Blocked(calls[p])
    /\ StoreFaultCaught(p, "read")
    /\ UNCHANGED <<store, ddb, dcall, dlog, dbLoaded, pre, adm, bg, mgrDb>>
    /\ UNCHANGED cacheVars

\* a fetchWithTimeout that tries again after anything but a good response
RetriedAlways(kind, retries) == kind # "ok" /\ retries > 0

\* a fetchWithTimeout that never tries again
RetriedNever(kind, retries) == FALSE

\* fetchWithTimeout's catch: a rejected fetch is tried again while retries
\* are left, except when the rejection is the abort by its own timer; a
\* response, whatever its status, is no rejection
Retried(kind, retries) == kind = "neterror" /\ retries > 0

\* a fetchFromAPI that answers a 404 with a value
ApiResultNegative(kind, body) ==
    IF kind = "ok" THEN [thrown |-> FALSE, data |-> body, error |-> "none"]
    ELSE IF kind = "404" THEN [thrown |-> FALSE, data |-> "v1", error |-> "not_found"]
    ELSE [thrown |-> TRUE, data |-> NoData, error |-> "none"]

\* fetchFromAPI, once fetchWithTimeout has settled: { data } for an ok
\* response, { error: 'not_found' } for a 404, and a throw for any other
\* status, for the `Request timeout' Error (whose name is not AbortError) and
\* for the rejection left after the retries
ApiResult(kind, body) ==
    IF kind = "ok" THEN [thrown |-> FALSE, data |-> body, error |-> "none"]
    ELSE IF kind = "404" THEN [thrown |-> FALSE, data |-> NoData, error |-> "not_found"]
    ELSE [thrown |-> TRUE, data |-> NoData, error |-> "none"]

\* a request of the call settles with a response or a rejection: it is tried
\* again after the delay, or getDefinition goes on with the result of
\* fetchFromAPI - a result with data is cached and written back to the store
\* if the manager has one, any other is returned as it is, and a throw is
\* returned as { error: 'network' }
FetchSettles(p, kind, body) ==
    /\ LET fails == calls[p].fails + (IF kind = "neterror" THEN 1 ELSE 0)
           cs == [calls EXCEPT ![p] = [@ EXCEPT !.resp = kind, !.fails = fails]]
           apiResult == ApiResult(kind, body)
       IN  IF Retried(kind, calls[p].retries)
           THEN /\ calls' = [cs EXCEPT ![p] = [@ EXCEPT !.pc = "retryWait"]]
                /\ glog' = NoResult
                /\ UNCHANGED lastOk
                /\ UNCHANGED <<cache, ddb>>
           ELSE IF apiResult.thrown
           THEN /\ Return(p, cs, "undefined", "network", NoData, "none", cache, store)
                /\ UNCHANGED <<cache, ddb>>
           ELSE IF apiResult.data \in {NoData, Null}
           THEN /\ Return(p, cs, "undefined", apiResult.error, apiResult.data, "none",
                          cache, store)
                /\ UNCHANGED <<cache, ddb>>
           ELSE LET c == CacheSet(cache, HotKey(calls[p].key), apiResult.data, now, maxSize)
                    cached == CacheHolds(c, HotKey(calls[p].key), apiResult.data)
                    cw == [cs EXCEPT ![p] = [@ EXCEPT !.wrote = TRUE, !.arrCached = cached,
                                                      !.data = apiResult.data]]
                IN  /\ cache' = c
                    /\ IF mgrDb
                       THEN /\ calls' = [cw EXCEPT ![p] =
                                            [@ EXCEPT !.pc = "dbSetInit",
                                                      !.ready = Awaited(InitCall(ddb))]]
                            /\ ddb' = InitCall(ddb)
                            /\ glog' = NoResult
                            /\ UNCHANGED lastOk
                       ELSE /\ Return(p, cw, "api", apiResult.error, apiResult.data, "none",
                                      c, store)
                            /\ UNCHANGED ddb
    /\ UNCHANGED <<now, maxSize, clog, lru, setTime>>
    /\ UNCHANGED <<store, dcall, dlog, dbLoaded, pre, adm, bg, mgrDb>>

\* the response is ok and its body is a definition
GDFetchOk(p, data) ==
    /\ calls[p].pc = "fetch"
    /\ FetchSettles(p, "ok", data)

\* the response is ok and its body is a falsy JSON value: the bare
\* { data } of fetchFromAPI is returned, with no source and no error
GDFetchEmpty(p) ==
    /\ calls[p].pc = "fetch"
    /\ FetchSettles(p, "ok", Null)

\* the response is a 404
GDFetchNotFound(p) ==
    /\ calls[p].pc = "fetch"
    /\ FetchSettles(p, "404", NoData)

\* the response has another failing status (or a body that is not JSON)
GDFetchBadStatus(p) ==
    /\ calls[p].pc = "fetch"
    /\ FetchSettles(p, "bad", NoData)

\* fetch rejects (no connection)
GDFetchNetError(p) ==
    /\ calls[p].pc = "fetch"
    /\ FetchSettles(p, "neterror", NoData)

\* the timer of fetchWithTimeout aborts the request: fetch rejects with an
\* AbortError, which fetchWithTimeout turns into Error('Request timeout')
GDFetchTimeout(p) ==
    /\ calls[p].pc = "fetch"
    /\ FetchSettles(p, "timeout", NoData)

\* the retry delay ends: fetchWithTimeout(url, options, timeout, retries - 1)
GDRetry(p) ==
    /\ calls[p].pc = "retryWait"
    /\ calls' = [calls EXCEPT ![p] = [@ EXCEPT !.pc = "fetch",
                                                 !.reqs = @ + 1,
                                                 !.retries = @ - 1]]
    /\ glog' = NoResult
    /\ UNCHANGED lastOk
    /\ UNCHANGED <<store, ddb, dcall, dlog, dbLoaded, pre, adm, bg, mgrDb>>
    /\ UNCHANGED cacheVars

\* db.set after `await this.init()': a rejected init or a word that is not
\* truthy throws, which getDefinition catches; otherwise the put is issued
GDDbSetAfterInit(p) ==
    /\ calls[p].pc = "dbSetInit"
    /\ calls[p].ready # "wait"
    /\ IF calls[p].ready = "ok" /\ SetAccepts([word |-> calls[p].key, data |-> calls[p].data])
       THEN /\ calls' = [calls EXCEPT ![p] = [@ EXCEPT !.pc = "dbSetReq",
                                                        !.behind = TxTurn]]
            /\ glog' = NoResult
            /\ UNCHANGED lastOk
       ELSE Return(p, calls, "api", "none", calls[p].data, "failed", cache, store)
    /\ UNCHANGED <<store, ddb, dcall, dlog, dbLoaded, pre, adm, bg, mgrDb>>
    /\ UNCHANGED cacheVars

\* the put succeeds and the transaction completes
GDDbSetSuccess(p) ==
    /\ calls[p].pc = "dbSetReq"
    /\ ~Blocked(calls[p])
    /\ LET st == StorePut(store, WriteBackRecord(calls[p].key, calls[p].data))
       IN  /\ store' = st
           /\ Return(p, calls, "api", "none", calls[p].data, "ok", cache, st)
    /\ UNCHANGED <<ddb, dcall, dlog, dbLoaded, pre, adm, bg, mgrDb>>
    /\ UNCHANGED cacheVars

\* the put fails: getDefinition catches and returns the API result
GDDbSetError(p) ==
    /\ calls[p].pc = "dbSetReq"
    /\ ~Blocked(calls[p])
    /\ Return(p, calls, "api", "none", calls[p].data, "failed", cache, store)
    /\ UNCHANGED <<store, ddb, dcall, dlog, dbLoaded, pre, adm, bg, mgrDb>>
    /\ UNCHANGED cacheVars

\* the manager of a freshly loaded page, with what earlier pages left in the
\* store
InitManager ==
    /\ now = 0
    /\ maxSize = MgrMaxSize
    /\ cache = << >>
    /\ clog = NoCall
    /\ lru = << >>
    /\ setTime = [k \in CacheKeys |-> -1]
    /\ store \in InitialStores
    /\ ddb = NewDB
    /\ dcall = IdleCall
    /\ dlog = [op |-> "none", outcome |-> "none"]
    /\ dbLoaded \in BOOLEAN
    /\ mgrDb = FALSE
    /\ calls = [p \in Procs |-> IdleProc]
    /\ glog = NoResult
    /\ lastOk = NeverOk(WatchedKey)
    /\ pre = NoPreload
    /\ adm = NoAdmin
    /\ bg = NoBackground

\* the steps of the call of one caller
GDStep(p) ==
    \/ GDAfterInitDB(p)
    \/ GDDbGetAfterInit(p)
    \/ GDDbGetSuccess(p)
    \/ GDDbGetError(p)
    \/ \E data \in Values : GDFetchOk(p, data)
    \/ GDFetchEmpty(p)
    \/ GDFetchNotFound(p)
    \/ GDFetchBadStatus(p)
    \/ GDFetchNetError(p)
    \/ GDRetry(p)
    \/ GDFetchTimeout(p)
    \/ GDDbSetAfterInit(p)
    \/ GDDbSetSuccess(p)
    \/ GDDbSetError(p)

\* one caller, one call after the other, while the clock runs
Next ==
    \/ \E word \in GDWords : GDStart("p1", word)
    \/ GDStep("p1")
    \/ MgrOpenSuccess
    \/ MgrOpenError
    \/ Tick

Spec == InitManager /\ [][Next]_vars

\* the words looked up by overlapping calls
ConcWords == {<<"a">>, <<"A", " ">>, <<"a", "A">>}

\* two callers whose calls overlap, within one tick of the clock
NextConc ==
    \/ \E p \in Procs, word \in ConcWords : GDStart(p, word)
    \/ \E p \in Procs : GDStep(p)
    \/ MgrOpenSuccess
    \/ MgrOpenError

SpecConc == InitManager /\ [][NextConc]_vars

---------------------------------------------------------------------------
(* getDefinition: tier order, repeated lookups, population                 *)

\* the orders in which a call may have queried the tiers
TierOrders == {<<"cache">>, <<"cache", "store">>, <<"cache", "remote">>,
               <<"cache", "store", "remote">>}

\* C1: getDefinition queries the tiers in the order cache, store, remote and
\* stops at the first that yields a value: a call that found a live cache
\* entry queried nothing else and issued no request, a call whose store
\* request yielded a definition issued no request, and no request is issued
\* before the remote tier is reached.
C1_TiersInOrderStopAtFirstHit ==
    /\ \A p \in Procs : calls[p].pc # "idle" =>
          /\ calls[p].probes \in TierOrders
          /\ ~calls[p].hadEntry
          /\ ~calls[p].found
          /\ (calls[p].reqs > 0) = (calls[p].probes[Len(calls[p].probes)] = "remote")
    /\ glog.source # "none" =>
          /\ glog.probes \in TierOrders
          /\ ~glog.found
          /\ glog.hadEntry => glog.source = "hot_cache"
          /\ glog.source = "hot_cache" => glog.probes = <<"cache">> /\ glog.reqs = 0
          /\ glog.source = "indexeddb" => glog.probes = <<"cache", "store">> /\ glog.reqs = 0
          /\ (glog.reqs > 0) = (glog.probes[Len(glog.probes)] = "remote")

\* a call stopped at the store: the store was queried after the cache, the
\* remote never
C1_Witness_StoppedAtStore ==
    /\ glog.source = "indexeddb"
    /\ glog.probes = <<"cache", "store">>
    /\ glog.reqs = 0

\* C2 as stated: a call for a word that starts within TTL of an earlier call
\* that returned a value for the same normalised word answers from the hot
\* cache and issues no request, whatever happened in between.
C2_RepeatAlwaysFromCache ==
    (glog.source # "none" /\ glog.prior) =>
        (glog.source = "hot_cache" /\ glog.reqs = 0)

\* C2, amended: a call that starts while the hot cache still holds an entry
\* for its normalised word, not older than TTL since it was written, answers
\* from the hot cache, queries no other tier and issues no request.
C2_RepeatFromCacheWhileEntryLives ==
    (glog.source # "none" /\ glog.hadEntry) =>
        (glog.source = "hot_cache" /\ glog.reqs = 0 /\ glog.probes = <<"cache">>)

\* a repeated lookup of the watched word, within TTL of the last answer, is
\* answered from the hot cache
C2_Witness_RepeatHit ==
    /\ glog.source = "hot_cache"
    /\ glog.prior
    /\ glog.hadEntry
    /\ glog.key = WatchedKey

\* C3 as stated: when a call returns a value from the store the hot cache
\* holds it under the normalised word; when it returns a value from the API
\* the hot cache holds it and, if the manager had a store to write it back
\* to, the store holds a record for the normalised word with that value.
C3_PopulatedAtReturn ==
    /\ glog.source = "indexeddb" => glog.cached
    /\ glog.source = "api" =>
          /\ glog.cached
          /\ glog.wroteBack # "none" => glog.stored

\* C3, amended: after a store hit the hot cache holds the value at return;
\* after an API success the value was put into the hot cache when the
\* response arrived, and the store holds the record at return if the
\* write-back succeeded.
C3_PopulatedWhenWritten ==
    /\ \A p \in Procs : calls[p].pc \in {"dbSetInit", "dbSetReq"} => calls[p].arrCached
    /\ glog.source = "indexeddb" => glog.cached
    /\ glog.source = "api" =>
          /\ glog.arrCached
          /\ glog.wroteBack = "ok" => glog.stored

\* an API answer was written back to the store, and the hot cache has lost
\* it to an overlapping call before the return
C3_Witness_WrittenBackButEvicted ==
    /\ glog.source = "api"
    /\ glog.wroteBack = "ok"
    /\ glog.stored
    /\ glog.arrCached
    /\ ~glog.cached

---------------------------------------------------------------------------
(* DictionaryManager.preloadDictionary                                     *)

\* the batch size of preloadDictionary in the model (100 in the code)
PreloadBatchSize == 2
\* the longest list preloaded
MaxPreload == 3
\* the entries handed to preloadDictionary
PreloadEntries ==
    { [word |-> <<"A", " ">>, data |-> "v1"],
      [word |-> <<"a", "A">>, data |-> NoData],
      [word |-> NoWord, data |-> "v2"] }
PreloadLists == UNION {[1..m -> PreloadEntries] : m \in 0..MaxPreload}

\* batch.map(entry => ({ word: entry.word?.trim().toLowerCase() || '',
\*                       data: entry.data || entry }))
FormatEntry(entry) ==
    [word |-> IF entry.word = NoWord THEN << >> ELSE CleanWord(entry.word),
     data |-> IF entry.data = NoData THEN "self" ELSE entry.data]
FormatBatch(batch) == [i \in 1..Len(batch) |-> FormatEntry(batch[i])]

\* entries.slice(i, i + batchSize)
Slice(entries, i, n) ==
    SubSeq(entries, i + 1, IF i + n < Len(entries) THEN i + n ELSE Len(entries))

\* the head of the for loop: the next batch goes to db.setBatch, or the loop
\* and the call end
PreloadLoop(pr) ==
    IF pr.i < Len(pr.entries)
    THEN /\ dcall.op = "idle"
         /\ pre' = [pr EXCEPT !.pc = "batch"]
         /\ dcall' = [op |-> "setBatch", pc |-> "init",
                      arg |-> FormatBatch(Slice(pr.entries, pr.i, PreloadBatchSize))]
         /\ ddb' = InitCall(ddb)
         /\ dlog' = NoLog
    ELSE /\ pre' = [pr EXCEPT !.pc = "done"]
         /\ UNCHANGED <<dcall, ddb, dlog>>

\* the values config.DICTIONARY.INDEXEDDB.BATCH_SIZE may be given at
\* construction
ConfigBatchSizes == 1..PreloadBatchSize

\* preloadDictionary(entries, onProgress) up to the await inside initDB, on a
\* manager constructed with BATCH_SIZE = configured; the loop never reads the
\* configuration, its batchSize is the literal PreloadBatchSize
PreloadStart(entries, configured) ==
    /\ pre.pc = "idle"
    /\ IF ~dbLoaded \/ mgrDb
       THEN /\ pre' = [pc |-> "initDB", ready |-> "ok", entries |-> entries, i |-> 0,
                       processed |-> 0, progress |-> << >>, error |-> "none",
                       configured |-> configured]
            /\ UNCHANGED <<mgrDb, ddb>>
       ELSE /\ pre' = [pc |-> "initDB", ready |-> "wait", entries |-> entries, i |-> 0,
                       processed |-> 0, progress |-> << >>, error |-> "none",
                       configured |-> configured]
            /\ mgrDb' = TRUE
            /\ ddb' = InitCall(NewDB)
    /\ UNCHANGED <<store, dcall, dlog, dbLoaded, calls, glog, lastOk, adm, bg>>
    /\ UNCHANGED cacheVars

\* a test that never finds the store missing
NoStoreNever(db) == FALSE

\* `if (!this.db)'
NoStore(db) == ~db

\* after `await this.initDB()': without a store the call throws, otherwise
\* the loop starts
PreloadAfterInitDB ==
    /\ pre.pc = "initDB"
    /\ pre.ready # "wait"
    /\ IF NoStore(mgrDb)
       THEN /\ pre' = [pre EXCEPT !.pc = "failed", !.error = "IndexedDB not available"]
            /\ UNCHANGED <<dcall, ddb, dlog>>
       ELSE PreloadLoop(pre)
    /\ UNCHANGED <<store, dbLoaded, mgrDb, calls, glog, lastOk, adm, bg>>
    /\ UNCHANGED cacheVars

\* a count of the records of the batch that setBatch put
ProcessedPut(processed, batch) ==
    processed + Cardinality({j \in 1..Len(batch) : Truthy(FormatEntry(batch[j]).word)})

\* processed += batch.length
Processed(processed, batch) == processed + Len(batch)

\* after `await this.db.setBatch(formattedBatch)': a rejection ends the call;
\* otherwise the batch is counted, onProgress is called and the loop yields
PreloadBatchDone ==
    /\ pre.pc = "batch"
    /\ dcall.op = "idle"
    /\ dlog.op = "setBatch"
    /\ dlog.outcome \in {"ok", "error"}
    /\ IF dlog.outcome = "error"
       THEN pre' = [pre EXCEPT !.pc = "failed", !.error = "setBatch rejected"]
       ELSE LET processed == Processed(pre.processed,
                                       Slice(pre.entries, pre.i, PreloadBatchSize))
            IN  pre' = [pre EXCEPT !.pc = "yield",
                                   !.i = @ + PreloadBatchSize,
                                   !.processed = processed,
                                   !.progress = Append(@, processed)]
    /\ UNCHANGED <<store, ddb, dcall, dlog, dbLoaded, mgrDb, calls, glog, lastOk, adm, bg>>
    /\ UNCHANGED cacheVars

\* the setTimeout(0) between batches fires
PreloadYield ==
    /\ pre.pc = "yield"
    /\ PreloadLoop(pre)
    /\ UNCHANGED <<store, dbLoaded, mgrDb, calls, glog, lastOk, adm, bg>>
    /\ UNCHANGED cacheVars

\* the page goes away while the preload runs: the call never resumes and a
\* transaction that has not completed is aborted
PreloadCancel ==
    /\ pre.pc \in {"initDB", "batch", "yield"}
    /\ pre' = [pre EXCEPT !.pc = "cancelled"]
    /\ dcall' = IdleCall
    /\ dlog' = NoLog
    /\ UNCHANGED <<store, ddb, dbLoaded, mgrDb, calls, glog, lastOk, adm, bg>>
    /\ UNCHANGED cacheVars

\* a manager on an empty store
InitPreload ==
    /\ now = 0
    /\ maxSize = MgrMaxSize
    /\ cache = << >>
    /\ clog = NoCall
    /\ lru = << >>
    /\ setTime = [k \in CacheKeys |-> -1]
    /\ StoreIdle
    /\ dbLoaded \in BOOLEAN
    /\ mgrDb = FALSE
    /\ calls = [p \in Procs |-> IdleProc]
    /\ glog = NoResult
    /\ lastOk = NeverOk(WatchedKey)
    /\ pre = NoPreload
    /\ adm = NoAdmin
    /\ bg = NoBackground

\* one preload, its setBatch calls and the store's events
NextPreload ==
    \/ \E entries \in PreloadLists, configured \in ConfigBatchSizes :
          PreloadStart(entries, configured)
    \/ PreloadAfterInitDB
    \/ PreloadBatchDone
    \/ PreloadYield
    \/ PreloadCancel
    \/ MgrOpenSuccess
    \/ MgrOpenError
    \/ DBAfterInit
    \/ BatchPutSuccess
    \/ BatchNothingToPut
    \/ DBRequestError

SpecPreload == InitPreload /\ [][NextPreload]_vars

---------------------------------------------------------------------------
(* preload and setBatch: atomic batches                                    *)

\* the store that holds exactly the records of a list that have a word
StoreOf(entries) ==
    {[word |-> k, data |-> LastData(entries, k)] : k \in BatchKeys(entries)}

\* the number of batches of a list
BatchCount(entries) == (Len(entries) + PreloadBatchSize - 1) \div PreloadBatchSize

\* the first k batches of a list, as formatted by preloadDictionary
FirstBatches(entries, k) ==
    FormatBatch(SubSeq(entries, 1, IF k * PreloadBatchSize < Len(entries)
                                   THEN k * PreloadBatchSize ELSE Len(entries)))

\* the store holds the records of some number of whole batches of the list
\* being preloaded, and nothing else
WholeBatchesOnly ==
    IF pre.pc = "idle" THEN store = {}
    ELSE \E k \in 0..BatchCount(pre.entries) : store = StoreOf(FirstBatches(pre.entries, k))

\* C12: a setBatch call that meets a storage fault ends with an error and
\* leaves the store as it was; the store changes only when a whole batch is
\* applied by a call that succeeds; so at every moment of a preload, also
\* after it failed or was cancelled, the store holds whole batches only.
C12_BatchAtomic ==
    /\ []WholeBatchesOnly
    /\ [][/\ (SetBatchEnds /\ dlog'.outcome # "ok") => store' = store
          /\ (dcall.op = "setBatch" /\ dcall.pc = "req" /\ Len(dcall.queue) > 1
                /\ dcall'.op = "idle" /\ pre'.pc # "cancelled")
                => dlog'.outcome = "error"
          /\ store' # store =>
                /\ SetBatchEnds
                /\ dlog'.outcome = "ok"
                /\ BatchApplied(store, dcall.arg, store')
          /\ (pre.pc = "batch" /\ pre'.pc = "failed") =>
                dlog.outcome = "error" /\ pre'.progress = pre.progress]_vars

\* a preload has failed on its second batch: the first batch is in the store
C12_Witness_FailedPartWay ==
    /\ pre.pc = "failed"
    /\ Len(pre.progress) = 1
    /\ store # {}
    /\ store = StoreOf(FirstBatches(pre.entries, 1))
    /\ store # StoreOf(FirstBatches(pre.entries, 2))

---------------------------------------------------------------------------
(* DictionaryDB.init: one open per instance                                *)

\* a call is awaiting the init promise of the manager's store
AwaitsInit(call) == call.pc \in {"initDB", "dbGetInit", "dbSetInit"} /\ call.ready = "wait"

\* a call calls init() in this step, through db.get or db.set
CallsInit(p) ==
    /\ calls'[p].pc \in {"dbGetInit", "dbSetInit"}
    /\ calls[p].pc \notin {"dbGetInit", "dbSetInit"}

\* C13: however many calls reach init() on one DictionaryDB, one after the
\* other or while the open is pending, the database is opened once; a call
\* that arrives later makes no new attempt and gets the state of that one
\* attempt; when the attempt settles, every call awaiting it gets its
\* outcome; and an opened database stays as it is.
C13_OneOpenPerInstance ==
    /\ [](ddb.opens = IF ddb.initPromise = "none" THEN 0 ELSE 1)
    /\ [](\A p \in Procs : AwaitsInit(calls[p]) => mgrDb /\ ddb.initPromise = "pending")
    /\ [][/\ \A p \in Procs : CallsInit(p) =>
                /\ ddb' = ddb
                /\ ddb.initPromise = "pending" => calls'[p].ready = "wait"
                /\ ddb.initPromise = "resolved" => calls'[p].ready = "ok"
          /\ (ddb.initPromise = "pending" /\ ddb'.initPromise = "resolved") =>
                /\ ddb'.db /\ ddb'.opens = ddb.opens
                /\ \A p \in Procs : AwaitsInit(calls[p]) => calls'[p].ready = "ok"
          /\ (ddb.initPromise = "pending" /\ ddb'.initPromise = "rejected") =>
                /\ ddb'.opens = ddb.opens
                /\ \A p \in Procs : AwaitsInit(calls[p]) => calls'[p].ready = "failed"
          /\ ddb.initPromise = "resolved" => ddb' = ddb]_vars

\* two calls await the same pending open
C13_Witness_TwoAwaitOneOpen ==
    /\ \A p \in Procs : AwaitsInit(calls[p])
    /\ ddb.initPromise = "pending"
    /\ ddb.opens = 1

---------------------------------------------------------------------------
(* getDefinition: store failures and remote failures                       *)

\* the responses and rejections that are a failure of the remote tier
RemoteFailures == {"404", "bad", "neterror", "timeout"}

\* C14: a store failure never fails a resolution. A call that found the
\* store class missing, the initialisation failed, the read failed or the
\* write-back failed has gone on to the API; when the API answered with a
\* definition the call returns it with source api and no error, and an error
\* it returns is always a failure of the remote tier.
C14_StoreFailureAbsorbed ==
    /\ \A p \in Procs : (calls[p].pc # "idle" /\ calls[p].fault # "none") =>
          calls[p].pc \in {"fetch", "retryWait", "dbSetInit", "dbSetReq"}
    /\ (glog.source # "none" /\ (glog.fault # "none" \/ glog.wroteBack = "failed")) =>
          /\ glog.resp # "none"
          /\ (glog.resp = "ok" /\ glog.data \in Values) =>
                (glog.source = "api" /\ glog.error = "none")
    /\ (glog.source # "none" /\ glog.error # "none") => glog.resp \in RemoteFailures

\* a call whose store read failed and whose write-back failed returned the
\* definition from the API
C14_Witness_ReadAndWriteFailed ==
    /\ glog.source = "api"
    /\ glog.fault = "read"
    /\ glog.wroteBack = "failed"
    /\ glog.data \in Values
    /\ glog.error = "none"

\* C15: a word that is empty after trim and lowercase is an input error: the
\* call returns an error result without probing the cache or the store and
\* without issuing any remote request.
C15_EmptyKeyIsInputError ==
    (glog.source # "none" /\ glog.key = << >>) =>
        /\ glog.error # "none"
        /\ glog.probes = << >>
        /\ glog.reqs = 0

\* C16 as stated: a resolution whose remote response is a 404 returns the
\* not-found error and has issued exactly one request.
C16_NotFoundOneRequest ==
    (glog.source # "none" /\ glog.resp = "404") =>
        /\ glog.error = "not_found"
        /\ glog.reqs = 1

\* C16: a 404 response is never retried. The resolution returns the not-found
\* error in the step that receives the 404 and issues no request after it, so
\* its requests are the 404 and the connection failures retried before it:
\* exactly one request when the 404 answers the first attempt.
C16_NotFoundNeverRetried ==
    /\ \A p \in Procs : calls[p].pc \in {"fetch", "retryWait", "dbSetInit", "dbSetReq"} =>
          calls[p].resp # "404"
    /\ (glog.source # "none" /\ glog.resp = "404") =>
          /\ glog.error = "not_found"
          /\ glog.source = "undefined"
          /\ glog.reqs = glog.fails + 1
          /\ glog.fails <= RetryAttempts
          /\ glog.fails = 0 => glog.reqs = 1

\* a 404 that answered the retry of a failed connection: two requests
C16_Witness_NotFoundAfterRetry ==
    /\ glog.source # "none"
    /\ glog.resp = "404"
    /\ glog.error = "not_found"
    /\ glog.fails = 1
    /\ glog.reqs = 2

\* C17: a request that times out is retried RetryAttempts times before the
\* timeout is surfaced: a resolution whose requests all timed out has made
\* RetryAttempts + 1 of them.
C17_TimeoutRetried ==
    (glog.source # "none" /\ glog.resp = "timeout" /\ glog.fails = 0) =>
        glog.reqs = RetryAttempts + 1

\* C18: a resolution whose request was cancelled by the timeout ends with the
\* timeout error kind, not with the network error kind.
C18_TimeoutErrorKind ==
    (glog.source # "none" /\ glog.resp = "timeout") =>
        /\ glog.error = "timeout"
        /\ glog.error # "network"

\* the requests of a call in flight: one more than its failed attempts while
\* a request is out, as many as its failed attempts during the delay
OneAtATime(call) ==
    /\ call.pc = "fetch" =>
          /\ call.reqs = call.fails + 1
          /\ call.reqs + call.retries = RetryAttempts + 1
    /\ call.pc = "retryWait" =>
          /\ call.reqs = call.fails
          /\ call.resp = "neterror"
          /\ call.retries > 0

\* a step that issues a request of call p: the first one, or one that
\* follows the delay after a failed attempt
IssuesRequest(p) ==
    /\ calls[p].pc # "idle"
    /\ calls'[p].pc # "idle"
    /\ calls'[p].reqs # calls[p].reqs

\* C19: when every attempt fails at connection level, RetryAttempts + 1
\* requests are made, one at a time - a request is issued only after the
\* previous one has failed and the delay has passed - and the resolution then
\* returns the error instead of swallowing it.
C19_ConnectionErrorRetries ==
    /\ [](\A p \in Procs : calls[p].pc # "idle" => OneAtATime(calls[p]))
    /\ []((glog.source # "none" /\ glog.resp = "neterror") =>
             /\ glog.reqs = RetryAttempts + 1
             /\ glog.fails = RetryAttempts + 1
             /\ glog.error = "network"
             /\ glog.data = NoData)
    /\ [][\A p \in Procs : IssuesRequest(p) =>
             /\ calls'[p].reqs = calls[p].reqs + 1
             /\ calls'[p].pc = "fetch"
             /\ calls[p].reqs > 0 => calls[p].pc = "retryWait"]_vars

\* a resolution that returned the network error after RetryAttempts + 1
\* failed connections
C19_Witness_AllAttemptsFailed ==
    /\ glog.source # "none"
    /\ glog.resp = "neterror"
    /\ glog.fails = RetryAttempts + 1
    /\ glog.error = "network"

\* a call returns in this step and its remote request failed
ReturnsRemoteFailure ==
    /\ glog'.source # "none"
    /\ glog' # glog
    /\ glog'.resp \in RemoteFailures

\* C20: when the remote tier fails - connection failures after the retries,
\* a timeout, a 404 or another bad status - the call returns an error kind
\* and no value, it has written nothing to the cache or the store, and the
\* returning step leaves both as they were: the cache holds no entry for the
\* word afterwards, so a not-found is not cached.
C20_RemoteFailureWritesNothing ==
    /\ []((glog.source # "none" /\ glog.resp \in RemoteFailures) =>
             /\ glog.error \in {"not_found", "network", "timeout"}
             /\ glog.data = NoData
             /\ glog.source = "undefined"
             /\ ~glog.wrote
             /\ glog.wroteBack = "none"
             /\ ~CacheHas(cache, HotKey(glog.key)))
    /\ [][ReturnsRemoteFailure => (cache' = cache /\ store' = store)]_vars

\* a resolution that ended with a 404 after missing the cache and the store
C20_Witness_NotFoundReturned ==
    /\ glog.source = "undefined"
    /\ glog.resp = "404"
    /\ glog.error = "not_found"
    /\ glog.probes = <<"cache", "store", "remote">>
    /\ ~glog.wrote

---------------------------------------------------------------------------
(* preloadDictionary: progress                                             *)

\* every entry of the list has a word and no two have the same key
DistinctValid(entries) ==
    /\ \A i \in 1..Len(entries) : Truthy(FormatEntry(entries[i]).word)
    /\ \A i, j \in 1..Len(entries) :
          FormatEntry(entries[i]).word = FormatEntry(entries[j]).word => i = j

\* ceil(n / b)
CeilDiv(n, b) == (n + b - 1) \div b

\* the values are strictly increasing
StrictlyIncreasing(seq) == \A i \in 1..(Len(seq) - 1) : seq[i] < seq[i + 1]

\* C21: a preload of n records with distinct valid keys into an empty store,
\* on a manager configured with batch size b, has called onProgress
\* ceil(n / b) times when it completes, with strictly increasing values that
\* end at n, and the store then counts n records.
C21_ProgressPerConfiguredBatch ==
    (pre.pc = "done" /\ DistinctValid(pre.entries)) =>
        /\ Len(pre.progress) = CeilDiv(Len(pre.entries), pre.configured)
        /\ StrictlyIncreasing(pre.progress)
        /\ Len(pre.entries) > 0 => pre.progress[Len(pre.progress)] = Len(pre.entries)
        /\ StoreCount(store) = Len(pre.entries)

---------------------------------------------------------------------------
(* a preload and a lookup on the same manager                              *)

\* the words looked up while a preload runs
MixWords == {<<"a">>, <<"a", "A">>}

\* the lists preloaded while a caller looks words up: MaxPreload copies of
\* one entry
MixLists == {[i \in 1..MaxPreload |-> entry] : entry \in PreloadEntries}

\* a preload, its batches, and the calls of one caller in between
NextMixed ==
    \/ \E entries \in MixLists : PreloadStart(entries, PreloadBatchSize)
    \/ PreloadAfterInitDB
    \/ PreloadBatchDone
    \/ PreloadYield
    \/ MgrOpenSuccess
    \/ MgrOpenError
    \/ DBAfterInit
    \/ BatchPutSuccess
    \/ BatchNothingToPut
    \/ DBRequestError
    \/ \E word \in MixWords : GDStart("p1", word)
    \/ GDStep("p1")

SpecMixed == InitPreload /\ [][NextMixed]_vars

\* the call is inside getDefinition and not waiting for the open request
Runnable(call) == call.pc # "idle" /\ call.ready # "wait"

\* a step that hands a batch to db.setBatch
StartsBatch == pre.pc # "batch" /\ pre'.pc = "batch"

\* C22: a preload does not starve a lookup. Between two batches the preload
\* yields, and while it yields no transaction is open, so a pending call can
\* take its next step; a pending call is held up only by the one batch
\* transaction that was open when it issued its store request.
C22_PreloadYieldsBetweenBatches ==
    /\ [](pre.pc = "yield" => TxTurn = -1)
    /\ [](\A p \in Procs : (Runnable(calls[p]) /\ pre.pc = "yield") =>
             (~Blocked(calls[p]) /\ ENABLED GDStep(p)))
    /\ [](\A p \in Procs : (Runnable(calls[p]) /\ ~ENABLED GDStep(p)) =>
             (Blocked(calls[p]) /\ pre.pc = "batch" /\ calls[p].behind = pre.i))
    /\ [][StartsBatch =>
             /\ pre.pc \in {"initDB", "yield"}
             /\ pre.i > 0 => pre.pc = "yield"
             /\ \A p \in Procs : Runnable(calls[p]) => ~Blocked(calls[p])]_vars

\* a lookup that started after the preload did has returned a record of the
\* first batch while the second batch is being written
C22_Witness_ResolvedBetweenBatches ==
    /\ pre.pc = "batch"
    /\ pre.i > 0
    /\ glog.source = "indexeddb"
    /\ glog.data \in Values

---------------------------------------------------------------------------
(* getStats and clearAll                                                   *)

\* why `if (this.db)' finds no store: the class is missing, the last open
\* failed and initDB dropped the instance, or initDB has not run yet
NoStoreCause ==
    IF ~dbLoaded THEN "missing"
    ELSE IF ddb.initPromise = "rejected" THEN "init"
    ELSE "unopened"

\* getStats returns its stats object
StatsReturn(a, count, available, cause) ==
    [pc |-> "done", op |-> "getStats", size |-> a.size, maxSize |-> a.maxSize,
     count |-> count, available |-> available, cause |-> cause]

\* clearAll returns; fault tells whether db.clear threw and was caught
ClearReturn(cleared, fault) ==
    [pc |-> "done", op |-> "clearAll", cleared |-> cleared, fault |-> fault]

\* getStats() up to its first await: the cache figures are read, and with a
\* store db.count() is called, which awaits init; without one the stats are
\* returned with count 0 and available false. initDB is not called.
GetStatsCall ==
    /\ adm.pc \in {"idle", "done"}
    /\ LET a == [size |-> CacheSize(cache), maxSize |-> maxSize]
       IN  IF mgrDb
           THEN /\ adm' = [pc |-> "statsInit", ready |-> Awaited(InitCall(ddb)),
                           size |-> a.size, maxSize |-> a.maxSize]
                /\ ddb' = InitCall(ddb)
           ELSE /\ adm' = StatsReturn(a, 0, FALSE, NoStoreCause)
                /\ UNCHANGED ddb
    /\ UNCHANGED <<store, dcall, dlog, dbLoaded, mgrDb, calls, glog, lastOk, pre, bg>>
    /\ UNCHANGED cacheVars

\* count() after `await this.init()': the count request is issued, or the
\* rejected init is caught by getStats
StatsAfterInit ==
    /\ adm.pc = "statsInit"
    /\ adm.ready # "wait"
    /\ adm' = IF adm.ready = "ok" THEN [adm EXCEPT !.pc = "statsReq"]
              ELSE StatsReturn(adm, 0, FALSE, "init")
    /\ UNCHANGED <<store, ddb, dcall, dlog, dbLoaded, mgrDb, calls, glog, lastOk, pre, bg>>
    /\ UNCHANGED cacheVars

\* request.onsuccess of the count
StatsCountSuccess ==
    /\ adm.pc = "statsReq"
    /\ TxTurn = -1
    /\ adm' = StatsReturn(adm, StoreCount(store), TRUE, "none")
    /\ UNCHANGED <<store, ddb, dcall, dlog, dbLoaded, mgrDb, calls, glog, lastOk, pre, bg>>
    /\ UNCHANGED cacheVars

\* request.onerror of the count: getStats catches and leaves the defaults
StatsCountError ==
    /\ adm.pc = "statsReq"
    /\ adm' = StatsReturn(adm, 0, FALSE, "count")
    /\ UNCHANGED <<store, ddb, dcall, dlog, dbLoaded, mgrDb, calls, glog, lastOk, pre, bg>>
    /\ UNCHANGED cacheVars

\* clearAll() up to its first await: the cache is cleared, and with a store
\* db.clear() is called, which awaits init; without one the call returns.
\* initDB is not called.
ClearAllCall ==
    /\ adm.pc \in {"idle", "done"}
    /\ cache' = CacheClear(cache)
    /\ IF mgrDb
       THEN /\ adm' = [pc |-> "clearInit", ready |-> Awaited(InitCall(ddb))]
            /\ ddb' = InitCall(ddb)
       ELSE /\ adm' = ClearReturn(FALSE, FALSE)
            /\ UNCHANGED ddb
    /\ UNCHANGED <<now, maxSize, clog, lru, setTime>>
    /\ UNCHANGED <<store, dcall, dlog, dbLoaded, mgrDb, calls, glog, lastOk, pre, bg>>

\* clear() after `await this.init()': the clear request is issued, or the
\* rejected init is caught by clearAll
ClearAfterInit ==
    /\ adm.pc = "clearInit"
    /\ adm.ready # "wait"
    /\ adm' = IF adm.ready = "ok" THEN [adm EXCEPT !.pc = "clearReq"]
              ELSE ClearReturn(FALSE, TRUE)
    /\ UNCHANGED <<store, ddb, dcall, dlog, dbLoaded, mgrDb, calls, glog, lastOk, pre, bg>>
    /\ UNCHANGED cacheVars

\* request.onsuccess of the clear: the object store is empty
ClearSuccess ==
    /\ adm.pc = "clearReq"
    /\ TxTurn = -1
    /\ store' = {}
    /\ adm' = ClearReturn(TRUE, FALSE)
    /\ UNCHANGED <<ddb, dcall, dlog, dbLoaded, mgrDb, calls, glog, lastOk, pre, bg>>
    /\ UNCHANGED cacheVars

\* request.onerror of the clear: clearAll catches
ClearError ==
    /\ adm.pc = "clearReq"
    /\ adm' = ClearReturn(FALSE, TRUE)
    /\ UNCHANGED <<store, ddb, dcall, dlog, dbLoaded, mgrDb, calls, glog, lastOk, pre, bg>>
    /\ UNCHANGED cacheVars

\* the words looked up around getStats and clearAll
AdminWords == {<<"a">>, <<"a", "A">>}

\* one caller of getDefinition, and getStats and clearAll called at any
\* moment
NextAdmin ==
    \/ \E word \in AdminWords : GDStart("p1", word)
    \/ GDStep("p1")
    \/ MgrOpenSuccess
    \/ MgrOpenError
    \/ GetStatsCall
    \/ StatsAfterInit
    \/ StatsCountSuccess
    \/ StatsCountError
    \/ ClearAllCall
    \/ ClearAfterInit
    \/ ClearSuccess
    \/ ClearError

SpecAdmin == InitManager /\ [][NextAdmin]_vars

\* getStats returns in this step
GetStatsReturns == adm' # adm /\ adm'.pc = "done" /\ adm'.op = "getStats"

\* the store can be used: the class is loaded and no open of it has failed
StoreUsable == dbLoaded /\ ddb.initPromise # "rejected"

\* C23: getStats reports the number of cache entries and the configured
\* capacity; it reports the store as available with its record count
\* whenever the store is usable, and as unavailable only when the store
\* failed to initialise or the count failed.
C23_StatsReportStore ==
    [][GetStatsReturns =>
          /\ adm'.maxSize = maxSize
          /\ adm.pc \in {"idle", "done"} => adm'.size = CacheSize(cache)
          /\ adm'.available => adm'.count = StoreCount(store)
          /\ ~adm'.available => adm'.cause \in {"missing", "init", "count"}
          /\ (StoreUsable /\ adm'.cause # "count") => adm'.available]_vars

\* clearAll returns in this step
ClearAllReturns == adm' # adm /\ adm'.pc = "done" /\ adm'.op = "clearAll"

\* C24: when clearAll completes without a storage fault, on a page where the
\* store class is loaded, the cache has no entry and the store has no record,
\* whether or not the manager had opened the store before.
C24_ClearAllEmptiesBoth ==
    [][(ClearAllReturns /\ ~adm'.fault /\ dbLoaded) =>
          (CacheSize(cache') = 0 /\ store' = {})]_vars

---------------------------------------------------------------------------
(* getDefinition: overlapping calls for one word                           *)

\* the word both callers look up, and the definition the API returns for it
SameWord == <<"a", "A">>
SameKey == CleanWord(SameWord)
SameData == "v1"

\* neither the hot cache nor the store has the word
Uncached(key) == ~CacheHas(cache, HotKey(key)) /\ StoreGet(store, key) = NoRecord

\* getDefinition is called for the word while no tier has it
GDStartUncached(p) ==
    /\ Uncached(SameKey)
    /\ GDStart(p, SameWord)

\* two callers that look the same word up while it is in no tier; every good
\* response carries the same definition
NextSame ==
    \/ \E p \in Procs : GDStartUncached(p)
    \/ \E p \in Procs : GDAfterInitDB(p)
    \/ \E p \in Procs : GDDbGetAfterInit(p)
    \/ \E p \in Procs : GDDbGetSuccess(p)
    \/ \E p \in Procs : GDDbGetError(p)
    \/ \E p \in Procs : GDFetchOk(p, SameData)
    \/ \E p \in Procs : GDFetchNetError(p)
    \/ \E p \in Procs : GDRetry(p)
    \/ \E p \in Procs : GDDbSetAfterInit(p)
    \/ \E p \in Procs : GDDbSetSuccess(p)
    \/ \E p \in Procs : GDDbSetError(p)
    \/ MgrOpenSuccess
    \/ MgrOpenError

SpecSame == InitManager /\ [][NextSame]_vars

\* C25 as stated: each of the calls for the same uncached word issues its own
\* remote request.
C25_EachIssuesOwnRequest ==
    glog.source # "none" => glog.reqs >= 1

\* what one call that received the definition leaves in the hot cache, and
\* the record it leaves in the store
SingleCallCache == CacheSet(<< >>, HotKey(SameKey), SameData, 0, maxSize)
SingleCallRecord == EntryToStore([word |-> SameKey, data |-> SameData])

\* C25: calls for the same word are not joined. A call that reaches the
\* remote tier issues its own request, also while another call for the word
\* has one in flight; a call issues none only when it found the record that
\* another call had written back meanwhile. The writes are idempotent: the
\* hot cache is empty or holds what one call would leave, the store has
\* gained nothing but the record one call would write, and after any call
\* that returned the definition the cache holds it.
C25_NotJoinedWritesIdempotent ==
    /\ \A p \in Procs : calls[p].pc \in {"fetch", "dbSetInit", "dbSetReq"} =>
          calls[p].reqs >= 1
    /\ (glog.source # "none" /\ glog.reqs = 0) =>
          /\ glog.source = "indexeddb"
          /\ glog.data = SameData
          /\ SingleCallRecord \in store
    /\ cache \in {<< >>, SingleCallCache}
    /\ \E st \in InitialStores : store \in {st, StorePut(st, SingleCallRecord)}
    /\ glog.source \in {"api", "indexeddb"} => cache = SingleCallCache
    /\ (glog.source = "api" /\ glog.wroteBack = "ok") => SingleCallRecord \in store

\* both calls have fetched the definition with a request of their own and
\* both are writing it back
C25_Witness_BothWriteBack ==
    \A p \in Procs :
        /\ calls[p].pc = "dbSetReq"
        /\ calls[p].reqs >= 1
        /\ calls[p].key = SameKey

---------------------------------------------------------------------------
(* getDefinition: normalisation of the word                                *)

\* one caller, one call after the other, within one tick of the clock
NextStill ==
    \/ \E word \in GDWords : GDStart("p1", word)
    \/ GDStep("p1")
    \/ MgrOpenSuccess
    \/ MgrOpenError

SpecStill == InitManager /\ [][NextStill]_vars

\* the words compared: every string of at most two characters
ProbeWords == WordsUpTo(2)

\* the two inputs are equal after trim and lowercase
EqualNormalised(w1, w2) == ToLowerCase(Trim(w1)) = ToLowerCase(Trim(w2))

\* the pairs of a word looked up and a word that is equal to it after trim
\* and lowercase
EqualPairs == {pair \in GDWords \X ProbeWords : EqualNormalised(pair[1], pair[2])}

---------------------------------------------------------------------------
(* a reload of the page: a new DictionaryManager on the same store         *)

\* a reload that loses the object store
RestartStoreWiped(st) == {}

\* the object store after a reload: IndexedDB keeps it
RestartStore(st) == st

\* the stores a reload can find: a put that was in flight has been committed
\* or not
StoresAtUnload ==
    {store} \cup {StorePut(store, WriteBackRecord(calls[p].key, calls[p].data)) :
                     p \in {q \in Procs : calls[q].pc = "dbSetReq"}}

\* the word that the call which has just returned resolved from the API while
\* the store worked: the record was written, or set() refused the word
ResolvedWithStore ==
    IF /\ glog.source = "api"
       /\ \/ glog.wroteBack = "ok"
          \/ /\ glog.wroteBack = "failed"
             /\ ddb.initPromise = "resolved"
             /\ ~SetAccepts([word |-> glog.key, data |-> glog.data])
    THEN glog.key
    ELSE NoWord

\* the page is reloaded: the calls in flight are gone, and the constructor
\* makes a manager with an empty hot cache and no DictionaryDB
Restart ==
    /\ ~lastOk.restarted
    /\ \E st \in StoresAtUnload : store' = RestartStore(st)
    /\ cache' = << >>
    /\ mgrDb' = FALSE
    /\ ddb' = NewDB
    /\ calls' = [p \in Procs |-> IdleProc]
    /\ glog' = NoResult
    /\ lastOk' = [key |-> lastOk.key, at |-> -1, restarted |-> TRUE,
                   resolved |-> ResolvedWithStore]
    /\ UNCHANGED <<now, maxSize, clog, lru, setTime>>
    /\ UNCHANGED <<dcall, dlog, dbLoaded, pre, adm, bg>>

\* a fresh installation: nothing is stored yet
InitFresh ==
    /\ InitManager
    /\ store = {}

\* one caller, and one reload of the page at any moment
NextRestart ==
    \/ \E word \in GDWords : GDStart("p1", word)
    \/ GDStep("p1")
    \/ MgrOpenSuccess
    \/ MgrOpenError
    \/ Restart

SpecRestart == InitFresh /\ [][NextRestart]_vars

\* the page is reloaded in this step
Restarts == ~lastOk.restarted /\ lastOk'.restarted

\* C27: after a reload, the word that was resolved from the API while the
\* store worked, just before the reload, misses the new manager's empty cache
\* and is returned from the store without a request, when the store lookup
\* works.
C27_ResolvedBeforeFromStoreAfter ==
    (/\ lastOk.restarted
     /\ glog.source # "none"
     /\ glog.key = lastOk.resolved
     /\ ~glog.hadEntry
     /\ glog.fault = "none") =>
        /\ glog.source = "indexeddb"
        /\ glog.reqs = 0

\* the reload leaves every record in the store and starts with an empty
\* cache, no record with a definition is ever lost, and a call whose store
\* lookup works goes to the API only when the store has no definition for
\* the word
StoreSurvivesRestart ==
    /\ [][Restarts => (cache' = << >> /\ store' \in StoresAtUnload)]_vars
    /\ [][\A k \in MgrKeys : StoreHit(StoreGet(store, k)) =>
                                StoreHit(StoreGet(store', k))]_vars
    /\ [](\A p \in Procs :
             (calls[p].pc \in {"fetch", "retryWait"} /\ calls[p].fault = "none") =>
                 ~calls[p].found)
    /\ []((glog.source # "none" /\ glog.fault = "none" /\ glog.reqs > 0) => ~glog.found)
    /\ [](glog.source = "indexeddb" =>
             /\ glog.reqs = 0
             /\ glog.probes = <<"cache", "store">>
             /\ StoreHolds(store, glog.key, glog.data))
    /\ []((/\ lastOk.restarted
           /\ glog.source # "none"
           /\ glog.key = lastOk.resolved
           /\ glog.key # << >>
           /\ ~glog.hadEntry
           /\ glog.fault = "none") =>
              (glog.source = "indexeddb" /\ glog.reqs = 0))

---------------------------------------------------------------------------
\* preloadDictionary without a store

\* the preload resumes after `await this.initDB()' and the manager has no
\* store: QuickDefineDB is not defined, or opening the database failed
ResumesWithoutStore ==
    /\ pre.pc = "initDB"
    /\ pre.ready # "wait"
    /\ ~mgrDb
    /\ pre' # pre
    /\ pre'.pc # "cancelled"

\* C29: a preloadDictionary call that finds the store unavailable throws
\* 'IndexedDB not available'; from its start to the throw nothing is written
\* to the store or the cache, no setBatch is issued and onProgress is not
\* called.
C29_PreloadFailsWithoutStore ==
    /\ [][ResumesWithoutStore =>
             /\ pre'.pc = "failed"
             /\ pre'.error = "IndexedDB not available"
             /\ pre'.progress = << >>
             /\ pre'.processed = 0
             /\ store' = store
             /\ cache' = cache
             /\ dcall' = dcall]_vars
    /\ []((\/ pre.pc = "initDB"
           \/ pre.pc = "failed" /\ pre.error = "IndexedDB not available") =>
              /\ store = {}
              /\ cache = << >>
              /\ dcall = IdleCall
              /\ pre.progress = << >>)

\* the database failed to open and a preload of three entries has thrown
C29_Witness_OpenFailed ==
    /\ pre.pc = "failed"
    /\ pre.error = "IndexedDB not available"
    /\ dbLoaded
    /\ ddb.initPromise = "rejected"
    /\ Len(pre.entries) = MaxPreload

---------------------------------------------------------------------------
\* The service worker's preloadDictionary

\* PRELOAD_CONFIG.ENABLED
PreloadEnabled == TRUE
\* PRELOAD_CONFIG.PRELOAD_COUNT in the model
PreloadCount == 3
\* PRELOAD_CONFIG.BATCH_SIZE in the model
BgBatchSize == 2
\* the longest dictionary.json tried
MaxBundled == 4

\* the entries of dictionary.json: with and without data, a word that is
\* blank, and an entry without a word
BundledEntries ==
    { [word |-> <<"A", " ">>, data |-> "v1"],
      [word |-> <<"a", "A">>, data |-> NoData],
      [word |-> <<" ">>, data |-> "v2"],
      [word |-> NoWord, data |-> "v2"] }
BundledLists == UNION {[1..m -> BundledEntries] : m \in 0..MaxBundled}

\* a store that holds n records
StoreWith(n) == {[word |-> [i \in 1..m |-> "a"], data |-> "v1"] : m \in 1..n}
\* what the store holds when the service worker starts
BgStores == {StoreWith(0), StoreWith(1), StoreWith(PreloadCount)}

Min(a, b) == IF a < b THEN a ELSE b

\* a loop over the whole list
SliceAll(entries) == entries

\* dictionaryEntries.slice(0, PRELOAD_CONFIG.PRELOAD_COUNT)
SliceCount(entries) == SubSeq(entries, 1, Min(Len(entries), PreloadCount))

\* formattedEntry = { word: entry.word.trim().toLowerCase(),
\*                    data: entry.data || entry }
BgFormatEntry(entry) ==
    [word |-> CleanWord(entry.word),
     data |-> IF entry.data = NoData THEN "self" ELSE entry.data]

\* the entries the for loop pushes from position i until the batch is full
\* or the list ends
BgSegment(b) ==
    LET list == SliceCount(b.entries)
    IN  SubSeq(list, b.i + 1, Min(b.i + BgBatchSize, Len(list)))

\* the batch array when it goes to storeBatch
BgBatch(b) ==
    LET seg == BgSegment(b) IN [j \in 1..Len(seg) |-> BgFormatEntry(seg[j])]

\* the records a storeBatch of these formatted entries puts
BgRecords(batch) ==
    LET q == BatchQueue(batch, TRUE) IN {q[j] : j \in 1..Len(q)}

\* the preloadDictionary runs of the service worker
Runs == {1, 2}
\* the locals of run n, and of the other run
BgRun(n) == IF n = 1 THEN bg ELSE bg.twin
BgOther(n) == IF n = 1 THEN bg.twin ELSE bg
\* run n goes on with the locals r
BgSet(n, r) == bg' = IF n = 1 THEN r ELSE [bg EXCEPT !.twin = r]

\* the for loop from position i up to its next await, and after the loop:
\* an entry without a word throws at entry.word.trim(); a full batch goes to
\* storeBatch; after the loop a remaining batch goes to storeBatch; then
\* PRELOAD_COMPLETE is sent with the count loaded. The readwrite transaction
\* of a storeBatch starts when the transaction of the other run is over.
BgLoop(n, b) ==
    LET seg == BgSegment(b)
        batch == BgBatch(b)
    IN  IF \E j \in 1..Len(seg) : seg[j].word = NoWord
        THEN /\ BgSet(n, [b EXCEPT !.pc = "failed", !.error = "TypeError"])
             /\ UNCHANGED <<dcall, dlog>>
        ELSE IF Len(seg) = 0
        THEN /\ BgSet(n, [b EXCEPT !.pc = "done", !.message = b.loaded])
             /\ UNCHANGED <<dcall, dlog>>
        ELSE /\ dcall.op = "idle"
             /\ BgOther(n).pc \notin {"batch", "last"}
             /\ BgSet(n, [b EXCEPT !.pc = IF Len(seg) >= BgBatchSize THEN "batch" ELSE "last",
                                   !.sent = Append(@, Len(seg)),
                                   !.between = @ \/ BgOther(n).pc = "yield"])
             /\ dcall' = [op |-> "storeBatch", pc |-> "req", arg |-> batch,
                          queue |-> BatchQueue(batch, TRUE), done |-> << >>]
             /\ dlog' = NoLog

\* preloadDictionary() up to `await initDB()': the service worker opens the
\* database
BgStart(n) ==
    /\ BgRun(n).pc = "idle"
    /\ PreloadEnabled
    /\ BgSet(n, [BgRun(n) EXCEPT !.pc = "open", !.after = BgOther(n).pc = "done"])
    /\ UNCHANGED <<dbLoaded, mgrDb, calls, glog, lastOk, pre, adm>>
    /\ UNCHANGED storeVars
    /\ UNCHANGED cacheVars

\* request.onsuccess of the service worker's indexedDB.open: the count
\* request is issued
BgOpenSuccess(n) ==
    /\ BgRun(n).pc = "open"
    /\ BgSet(n, [BgRun(n) EXCEPT !.pc = "count"])
    /\ UNCHANGED <<dbLoaded, mgrDb, calls, glog, lastOk, pre, adm>>
    /\ UNCHANGED storeVars
    /\ UNCHANGED cacheVars

\* request.onerror of the open: initDB rejects and the catch logs
BgOpenError(n) ==
    /\ BgRun(n).pc = "open"
    /\ BgSet(n, [BgRun(n) EXCEPT !.pc = "failed", !.error = "open"])
    /\ UNCHANGED <<dbLoaded, mgrDb, calls, glog, lastOk, pre, adm>>
    /\ UNCHANGED storeVars
    /\ UNCHANGED cacheVars

\* currentWordCount is known: with PRELOAD_COUNT records or more the call
\* returns, otherwise dictionary.json is fetched
BgCounted(n, count) ==
    BgSet(n, [BgRun(n) EXCEPT
                 !.pc = IF count >= PreloadCount THEN "skipped" ELSE "fetch",
                 !.counted = count,
                 !.held = StoreCount(store)])

\* countRequest.onsuccess
BgCountSuccess(n) ==
    /\ BgRun(n).pc = "count"
    /\ TxTurn = -1
    /\ BgCounted(n, StoreCount(store))
    /\ UNCHANGED <<dbLoaded, mgrDb, calls, glog, lastOk, pre, adm>>
    /\ UNCHANGED storeVars
    /\ UNCHANGED cacheVars

\* countRequest.onerror: resolve(0)
BgCountError(n) ==
    /\ BgRun(n).pc = "count"
    /\ BgCounted(n, 0)
    /\ UNCHANGED <<dbLoaded, mgrDb, calls, glog, lastOk, pre, adm>>
    /\ UNCHANGED storeVars
    /\ UNCHANGED cacheVars

\* dictionary.json, the same file for every run, is loaded and parsed: the
\* loop starts
BgFetchOk(n, entries) ==
    /\ BgRun(n).pc = "fetch"
    /\ BgOther(n).file \subseteq {entries}
    /\ BgLoop(n, [BgRun(n) EXCEPT !.entries = entries, !.file = {entries}])
    /\ UNCHANGED <<dbLoaded, mgrDb, calls, glog, lastOk, pre, adm>>
    /\ UNCHANGED <<store, ddb>>
    /\ UNCHANGED cacheVars

\* the fetch of dictionary.json fails or answers with a status that is not ok
BgFetchFailed(n) ==
    /\ BgRun(n).pc = "fetch"
    /\ BgSet(n, [BgRun(n) EXCEPT !.pc = "failed", !.error = "dictionary.json"])
    /\ UNCHANGED <<dbLoaded, mgrDb, calls, glog, lastOk, pre, adm>>
    /\ UNCHANGED storeVars
    /\ UNCHANGED cacheVars

\* after `await storeBatch(db, batch)': a rejection ends the preload in the
\* catch; otherwise the whole batch is counted as loaded, and the loop yields
\* or, after the remaining batch, PRELOAD_COMPLETE is sent
BgBatchDone(n) ==
    /\ BgRun(n).pc \in {"batch", "last"}
    /\ dcall.op = "idle"
    /\ dlog.op = "storeBatch"
    /\ dlog.outcome \in {"ok", "error"}
    /\ LET b == BgRun(n) IN
       IF dlog.outcome = "error"
       THEN BgSet(n, [b EXCEPT !.pc = "failed", !.error = "storeBatch rejected"])
       ELSE LET loaded == b.loaded + Len(BgSegment(b))
                written == b.written \cup BgRecords(BgBatch(b))
            IN  IF b.pc = "batch"
                THEN BgSet(n, [b EXCEPT !.pc = "yield",
                                        !.i = @ + BgBatchSize,
                                        !.loaded = loaded,
                                        !.written = written])
                ELSE BgSet(n, [b EXCEPT !.pc = "done",
                                        !.i = @ + Len(BgSegment(b)),
                                        !.loaded = loaded,
                                        !.written = written,
                                        !.message = loaded])
    /\ UNCHANGED <<dbLoaded, mgrDb, calls, glog, lastOk, pre, adm>>
    /\ UNCHANGED storeVars
    /\ UNCHANGED cacheVars

\* the setTimeout(0) after a full batch fires
BgYield(n) ==
    /\ BgRun(n).pc = "yield"
    /\ BgLoop(n, BgRun(n))
    /\ UNCHANGED <<dbLoaded, mgrDb, calls, glog, lastOk, pre, adm>>
    /\ UNCHANGED <<store, ddb>>
    /\ UNCHANGED cacheVars

\* CHECK_PRELOAD_STATUS arrives: the handler opens the database
BgCheckStatus ==
    /\ bg.check = "idle"
    /\ bg' = [bg EXCEPT !.check = "open", !.preloaded = "none",
                        !.checkAfter = bg.pc = "done" \/ bg.twin.pc = "done"]
    /\ UNCHANGED <<dbLoaded, mgrDb, calls, glog, lastOk, pre, adm>>
    /\ UNCHANGED storeVars
    /\ UNCHANGED cacheVars

\* the handler's open succeeds: the count request is issued
BgCheckOpenSuccess ==
    /\ bg.check = "open"
    /\ bg' = [bg EXCEPT !.check = "count"]
    /\ UNCHANGED <<dbLoaded, mgrDb, calls, glog, lastOk, pre, adm>>
    /\ UNCHANGED storeVars
    /\ UNCHANGED cacheVars

\* the handler's open fails: .catch(() => sendResponse({ preloaded: false }))
BgCheckOpenError ==
    /\ bg.check = "open"
    /\ bg' = [bg EXCEPT !.check = "idle", !.preloaded = "false"]
    /\ UNCHANGED <<dbLoaded, mgrDb, calls, glog, lastOk, pre, adm>>
    /\ UNCHANGED storeVars
    /\ UNCHANGED cacheVars

\* sendResponse({ preloaded: countRequest.result >= PRELOAD_COUNT })
PreloadedAnswer(count) == IF count >= PreloadCount THEN "true" ELSE "false"

\* countRequest.onsuccess of the handler
BgCheckCountSuccess ==
    /\ bg.check = "count"
    /\ TxTurn = -1
    /\ bg' = [bg EXCEPT !.check = "idle", !.preloaded = PreloadedAnswer(StoreCount(store))]
    /\ UNCHANGED <<dbLoaded, mgrDb, calls, glog, lastOk, pre, adm>>
    /\ UNCHANGED storeVars
    /\ UNCHANGED cacheVars

\* countRequest.onerror of the handler
BgCheckCountError ==
    /\ bg.check = "count"
    /\ bg' = [bg EXCEPT !.check = "idle", !.preloaded = "false"]
    /\ UNCHANGED <<dbLoaded, mgrDb, calls, glog, lastOk, pre, adm>>
    /\ UNCHANGED storeVars
    /\ UNCHANGED cacheVars

\* the service worker starts on a store that may hold records
InitBackground ==
    /\ now = 0
    /\ maxSize = MgrMaxSize
    /\ cache = << >>
    /\ clog = NoCall
    /\ lru = << >>
    /\ setTime = [k \in CacheKeys |-> -1]
    /\ store \in BgStores
    /\ ddb = NewDB
    /\ dcall = IdleCall
    /\ dlog = NoLog
    /\ ManagerIdle

\* one preload by the service worker, its storeBatch calls and the store's
\* events
NextBackground ==
    \/ BgStart(1)
    \/ BgOpenSuccess(1)
    \/ BgOpenError(1)
    \/ BgCountSuccess(1)
    \/ BgCountError(1)
    \/ \E entries \in BundledLists : BgFetchOk(1, entries)
    \/ BgFetchFailed(1)
    \/ BgBatchDone(1)
    \/ BgYield(1)
    \/ BatchPutSuccess
    \/ BatchNothingToPut
    \/ DBRequestError

SpecBackground == InitBackground /\ [][NextBackground]_vars

\* the records the first PRELOAD_COUNT entries of the list can give
FirstRecords(b) ==
    LET list == SliceCount(b.entries)
    IN  {BackgroundRecord(BgFormatEntry(list[j])) :
            j \in {k \in 1..Len(list) : /\ list[k].word # NoWord
                                        /\ Truthy(CleanWord(list[k].word))}}

\* what a preload that goes on may do: it writes only records of the first
\* PRELOAD_COUNT entries, passes at most BATCH_SIZE entries to a storeBatch,
\* announces min(number of entries, PRELOAD_COUNT), and when it has announced
\* the store holds a record for every one of those entries that has a word
LoadsFirstEntries ==
    /\ bg.written \subseteq FirstRecords(bg)
    /\ \A k \in 1..Len(bg.sent) : bg.sent[k] \in 1..BgBatchSize
    /\ bg.message # -1 <=> bg.pc = "done"
    /\ bg.pc = "done" =>
          /\ bg.message = Min(Len(bg.entries), PreloadCount)
          /\ bg.written = FirstRecords(bg)
          /\ \A r \in FirstRecords(bg) : StoreGet(store, r.word) # NoRecord

\* the preload has written no record
WritesNothing == bg.written = {}

\* the preload has passed nothing to storeBatch and announced nothing
StartsNothing ==
    /\ bg.sent = << >>
    /\ bg.message = -1

\* C30 (as stated): with PRELOAD_COUNT records or more in the store when the
\* preload counts them it writes nothing; with fewer it stores only records
\* of the first PRELOAD_COUNT entries, in batches of at most BATCH_SIZE, and
\* announces min(number of bundled entries, PRELOAD_COUNT).
C30_SkipsWhenStoreHolds ==
    /\ bg.pc \notin {"idle", "open", "count"} =>
          IF bg.held >= PreloadCount THEN WritesNothing ELSE LoadsFirstEntries
    /\ bg.pc \in {"idle", "open", "count"} => WritesNothing

\* C30 (amended): the decision follows the count the request reports, which
\* is the number of records held, or 0 when the request fails: with a reported
\* count of PRELOAD_COUNT or more the preload writes nothing; otherwise it
\* stores only records of the first PRELOAD_COUNT entries, in batches of at
\* most BATCH_SIZE, and announces min(number of bundled entries,
\* PRELOAD_COUNT).
C30_SkipsWhenCountReports ==
    /\ bg.pc \notin {"idle", "open", "count"} =>
          /\ bg.counted \in {bg.held, 0}
          /\ IF bg.counted >= PreloadCount
             THEN WritesNothing /\ StartsNothing /\ bg.pc = "skipped"
             ELSE LoadsFirstEntries /\ bg.pc # "skipped"
    /\ bg.pc \in {"idle", "open", "count"} => WritesNothing /\ StartsNothing

\* a list longer than PRELOAD_COUNT was loaded in a full batch and a
\* remaining one, and PRELOAD_COUNT was announced
C30_Witness_LoadedFirstEntries ==
    /\ bg.pc = "done"
    /\ bg.held < PreloadCount
    /\ Len(bg.entries) > PreloadCount
    /\ bg.message = PreloadCount
    /\ Len(bg.sent) = 2
    /\ bg.written # {}

---------------------------------------------------------------------------
\* Lookups while and after the service worker preloads

\* a definition that only dictionary.json holds
BundledValue == "b1"
\* dictionary.json in these runs
OfflineLists ==
    { << [word |-> <<"A", " ">>, data |-> BundledValue],
         [word |-> <<"a">>, data |-> NoData],
         [word |-> <<" ">>, data |-> BundledValue] >>,
      << [word |-> <<"a", "A">>, data |-> NoData],
         [word |-> <<"A", " ">>, data |-> BundledValue] >>,
      << [word |-> <<"a">>, data |-> BundledValue] >> }
\* the words looked up
OfflineWords == {<<"a">>, <<"a", "A">>}

\* a page with an empty cache and a service worker on an empty store
InitBundled ==
    /\ InitBackground
    /\ store = {}

\* one preload by the service worker and the lookups of one caller
NextBundled ==
    \/ BgStart(1)
    \/ BgOpenSuccess(1)
    \/ BgOpenError(1)
    \/ BgCountSuccess(1)
    \/ BgCountError(1)
    \/ \E entries \in OfflineLists : BgFetchOk(1, entries)
    \/ BgFetchFailed(1)
    \/ BgBatchDone(1)
    \/ BgYield(1)
    \/ BatchPutSuccess
    \/ BatchNothingToPut
    \/ DBRequestError
    \/ MgrOpenSuccess
    \/ MgrOpenError
    \/ \E word \in OfflineWords : GDStart("p1", word)
    \/ GDStep("p1")

SpecBundled == InitBundled /\ [][NextBundled]_vars

\* the preload wrote this data under this word
Preloaded(key, data) == \E r \in bg.written : r.word = key /\ r.data = data

\* a call has returned that started after the preload wrote its word, and
\* whose store lookup worked
ReturnsBundled ==
    /\ glog.source # "none"
    /\ glog.bundled
    /\ glog.fault = "none"

---------------------------------------------------------------------------
\* SimpleCache.set on a key already present (checked under SpecCache)

\* C32: after set(k, v) on a key that was present, with another key in the
\* cache, k is at the most recently used position of the Map and is not the
\* first key, the one the next eviction removes.
C32_OverwriteMovesToMostRecent ==
    (clog.op = "set" /\ clog.present /\ CacheSize(cache) > 1) =>
        /\ cache[Len(cache)].key = clog.key
        /\ cache[1].key # clog.key

---------------------------------------------------------------------------
\* The empty key (checked under SpecStore)

\* C33: no record of the store has the empty string as its key, whatever
\* words were passed to set, setBatch and storeBatch.
C33_NoEmptyKeyStored == \A r \in store : r.word # << >>

---------------------------------------------------------------------------
\* Settlement of the batch promise (checked under SpecStore)

\* C34: every setBatch and storeBatch call whose requests have all reported
\* ends with its promise resolved or rejected, whatever the list: the empty
\* list and lists of entries without a word included.
C34_BatchPromiseSettles ==
    dlog.op \in {"setBatch", "storeBatch"} => dlog.outcome \in {"ok", "error"}

---------------------------------------------------------------------------
\* The processed count of preloadDictionary (checked under SpecPreload)

\* the input records of the batches completed so far that were put
PutSoFar ==
    LET upto == IF pre.i < Len(pre.entries) THEN pre.i ELSE Len(pre.entries)
    IN  Cardinality({j \in 1..upto : Truthy(FormatEntry(pre.entries[j]).word)})

\* C39 (as stated): the processed count last passed to onProgress is at most
\* the number of input records put into the store by then; the entries
\* skipped for their missing word are not counted.
C39_ProcessedCountsWritten ==
    (pre.pc # "idle" /\ Len(pre.progress) > 0) =>
        pre.progress[Len(pre.progress)] <= PutSoFar

\* the input records of the batches completed so far
HandedSoFar == IF pre.i < Len(pre.entries) THEN pre.i ELSE Len(pre.entries)

\* C39 (amended): the k-th processed count passed to onProgress is the number
\* of input records in the first k batches, the skipped ones included; it is
\* never below the number of records put, and the last one of a completed
\* preload is the total.
C39_ProcessedCountsHanded ==
    pre.pc # "idle" =>
        /\ \A k \in 1..Len(pre.progress) :
              pre.progress[k] = IF k * PreloadBatchSize < Len(pre.entries)
                                THEN k * PreloadBatchSize ELSE Len(pre.entries)
        /\ pre.processed = HandedSoFar
        /\ PutSoFar <= pre.processed
        /\ Len(pre.progress) > 0 => pre.progress[Len(pre.progress)] = pre.processed
        /\ (pre.pc = "done" /\ Len(pre.entries) > 0) =>
              pre.progress[Len(pre.progress)] = Len(pre.entries)

\* a preload of three entries, one of them without a word, has completed:
\* three were reported and two were put
C39_Witness_SkippedCounted ==
    /\ pre.pc = "done"
    /\ Len(pre.entries) = MaxPreload
    /\ pre.progress[Len(pre.progress)] = MaxPreload
    /\ PutSoFar = MaxPreload - 1

---------------------------------------------------------------------------
\* Preload runs that follow or overlap, and the preload status

\* dictionary.json in these runs: a word twice with different data in two
\* batches; PRELOAD_COUNT different words and one more entry; one entry
TriggerLists ==
    { << [word |-> <<"A", " ">>, data |-> BundledValue],
         [word |-> <<"a", "A">>, data |-> NoData],
         [word |-> <<"a">>, data |-> NoData] >>,
      [i \in 1..(PreloadCount + 1) |->
          [word |-> [j \in 1..i |-> "a"], data |-> BundledValue]],
      << [word |-> <<"a">>, data |-> BundledValue] >> }

\* the service worker on an empty store
InitTrigger ==
    /\ InitBackground
    /\ store = {}

\* the install-time run, a TRIGGER_PRELOAD run that follows or overlaps it,
\* CHECK_PRELOAD_STATUS messages, and the store's events
NextTrigger ==
    \/ \E n \in Runs : BgStart(n)
    \/ \E n \in Runs : BgOpenSuccess(n)
    \/ \E n \in Runs : BgOpenError(n)
    \/ \E n \in Runs : BgCountSuccess(n)
    \/ \E n \in Runs : BgCountError(n)
    \/ \E n \in Runs, entries \in TriggerLists : BgFetchOk(n, entries)
    \/ \E n \in Runs : BgFetchFailed(n)
    \/ \E n \in Runs : BgBatchDone(n)
    \/ \E n \in Runs : BgYield(n)
    \/ BgCheckStatus
    \/ BgCheckOpenSuccess
    \/ BgCheckOpenError
    \/ BgCheckCountSuccess
    \/ BgCheckCountError
    \/ BatchPutSuccess
    \/ DBRequestError

SpecTrigger == InitTrigger /\ [][NextTrigger]_vars

\* run n was started when the other run had completed, and has got past its
\* count of the store
TriggeredAfterComplete(n) ==
    /\ BgRun(n).after
    /\ BgRun(n).pc \notin {"idle", "open", "count"}
    /\ BgRun(n).error # "open"

\* run n returned at the count test and wrote nothing
SkippedWithoutWriting(n) ==
    /\ BgRun(n).pc = "skipped"
    /\ BgRun(n).sent = << >>
    /\ BgRun(n).written = {}

\* CHECK_PRELOAD_STATUS, received after a run had completed, has been answered
AnsweredAfterComplete ==
    /\ bg.checkAfter
    /\ bg.check = "idle"
    /\ bg.preloaded # "none"

\* C31: once a preloadDictionary run has completed, every CHECK_PRELOAD_STATUS
\* received afterwards is answered preloaded: true, and every run triggered
\* afterwards whose database opens is skipped without writing a record
C31_CompletedPreloadSticks ==
    /\ AnsweredAfterComplete => bg.preloaded = "true"
    /\ \A n \in Runs : TriggeredAfterComplete(n) => SkippedWithoutWriting(n)

\* C31 for the later trigger alone, with its count request served: no run
\* started after a completed run reads the count of the store and still
\* fetches dictionary.json and writes records
C31_RewritesAfterComplete ==
    ~(/\ bg.pc = "done"
      /\ bg.twin.after
      /\ bg.twin.pc = "done"
      /\ bg.twin.counted = bg.twin.held
      /\ bg.twin.written # {})

\* the store a single run over the list leaves on an empty store: for every
\* key, the record of the last of the first PRELOAD_COUNT entries with it
SingleRunStore(entries) ==
    LET list == SliceCount(entries)
        stored == {k \in 1..Len(list) : /\ list[k].word # NoWord
                                        /\ Truthy(CleanWord(list[k].word))}
        key(k) == CleanWord(list[k].word)
    IN  {[word |-> key(j),
          data |-> IF list[j].data = NoData THEN "self" ELSE list[j].data] :
            j \in {k \in stored : \A m \in stored : m > k => key(m) # key(k)}}

\* both runs have ended without an error, and one of them loaded the list
BothRunsOver ==
    /\ bg.pc \in {"done", "skipped"}
    /\ bg.twin.pc \in {"done", "skipped"}
    /\ "done" \in {bg.pc, bg.twin.pc}

\* C38: two preloadDictionary runs are not kept apart; when both have ended
\* without an error, however their batch writes interleaved, the store holds
\* exactly the records a single run leaves
C38_OverlappingRunsSameStore ==
    BothRunsOver =>
        \A entries \in bg.file \cup bg.twin.file : store = SingleRunStore(entries)

\* both runs loaded a list that holds a word twice with different data, each
\* issued a batch while the other was between two of its batches
C38_Witness_Interleaved ==
    /\ bg.pc = "done"
    /\ bg.twin.pc = "done"
    /\ bg.between
    /\ bg.twin.between
    /\ Len(bg.sent) = 2
    /\ Len(bg.twin.sent) = 2
    /\ StoreCount(store) < Cardinality(bg.written)
    /\ \A entries \in bg.file : store = SingleRunStore(entries)

---------------------------------------------------------------------------
\* A failed initialisation of the manager's store is tried again

\* the open of the manager's store fails in this step
OpenFails == ddb.initPromise = "pending" /\ ddb'.initPromise = "rejected"

\* caller p's getDefinition misses the hot cache in this step
CacheMiss(p) == calls[p].pc = "idle" /\ calls'[p].pc # "idle"

\* caller p's call gets past `await this.initDB()' in this step
PastInitDB(p) == calls[p].pc = "initDB" /\ calls'[p].pc # "initDB"

\* caller p's call gets a definition from the API in this step
Fetched(p) ==
    /\ calls[p].pc = "fetch"
    /\ \/ calls'[p].pc = "dbSetInit"
       \/ calls'[p].pc = "idle" /\ glog'.source = "api"

\* the manager holds a DictionaryDB whose database is open
StoreOpen == mgrDb /\ ddb.db

\* the failed open leaves the manager without a handle; a cache miss of a
\* manager without a handle constructs a DictionaryDB, opens the database
\* and waits; a call that finds the store open goes on to db.get, and to
\* db.set when it has fetched a definition
RetriesInit ==
    /\ OpenFails => ~mgrDb'
    /\ \A p \in Procs :
          /\ (CacheMiss(p) /\ dbLoaded /\ ~mgrDb) =>
                /\ mgrDb'
                /\ ddb' = InitCall(NewDB)
                /\ ddb'.initPromise = "pending"
                /\ calls'[p].ready = "wait"
          /\ (PastInitDB(p) /\ StoreOpen) =>
                /\ calls'[p].pc = "dbGetInit"
                /\ calls'[p].ready = "ok"
          /\ (calls[p].pc = "dbGetInit" /\ calls[p].ready = "ok" /\ calls'[p] # calls[p]) =>
                /\ calls'[p].pc = "dbGetReq"
                /\ calls'[p].probes = calls[p].probes \o <<"store">>
          /\ (Fetched(p) /\ StoreOpen) =>
                /\ calls'[p].pc = "dbSetInit"
                /\ calls'[p].ready = "ok"

\* C35: a failed store initialisation is not permanent: the manager drops
\* the handle, each later cache miss opens the database afresh, and once an
\* open has succeeded calls read and write the store again, calls that were
\* in flight during the failed attempt included
C35_FailedInitRetried == [][RetriesInit]_vars

\* a call whose db.get awaited the initialisation another call had started
\* found it failed, and, a later call having opened the store, wrote its
\* definition back to the store
C35_Witness_WroteAfterReopen ==
    /\ glog.source = "api"
    /\ glog.fault = "init"
    /\ glog.wroteBack = "ok"
    /\ glog.stored
    /\ StoreOpen
    /\ \E q \in Procs \ {glog.proc} :
          /\ calls[q].pc # "idle"
          /\ calls[q].probes = <<"cache", "store">>

---------------------------------------------------------------------------
\* clearAll and the calls in flight

\* clearAll has returned, and caller p's call, which started before any
\* clearAll was called, is still in flight
InFlightAcrossClear(p) ==
    /\ adm.pc = "done"
    /\ adm.op = "clearAll"
    /\ calls[p].pc # "idle"
    /\ calls[p].before

\* C36: once clearAll has returned, a getDefinition call that started before
\* it writes nothing into the hot cache or the store
C36_ClearAllNotUndone ==
    [][\A p \in Procs : InFlightAcrossClear(p) => (cache' = cache /\ store' = store)]_vars

---------------------------------------------------------------------------
\* Coherence of the hot cache and the store

\* no getDefinition call is in flight, no batch is being written and no
\* preload of the service worker is under way
Quiescent ==
    /\ \A p \in Procs : calls[p].pc = "idle"
    /\ dcall.op = "idle"
    /\ bg.pc \in {"idle", "done", "skipped", "failed"}

\* the manager's store is open, the preload met no error, and the last call
\* read and wrote the store without a fault
NoFaultFelt ==
    /\ mgrDb
    /\ ddb.db
    /\ bg.error = "none"
    /\ glog.source # "none" => (glog.fault = "none" /\ glog.wroteBack # "failed")

\* the store record and the unexpired cache entry of a key hold one value
Coherent(r) ==
    LET k == HotKey(r.word)
    IN  (CacheHas(cache, k) /\ ~Expired(CacheItem(cache, k), now)) =>
            CacheItem(cache, k).value = r.data

\* C37: a key's unexpired cache entry and its store record hold the same
\* value; stated for the states where nothing is in progress and no fault
\* was met, which the claim's "every reachable state" includes
C37_CacheStoreCoherent == (Quiescent /\ NoFaultFelt) => \A r \in store : Coherent(r)

====
